---- MODULE Spec2Model ----
(***************************************************************************)
(* TrapValueGame: the point-in-time financial extractor, the display-name  *)
(* generator and the rate-limited ingestion job, as state machines.        *)
(*                                                                         *)
(* Dates are day ordinals (day 0 = 1 January of EpochYear); a datetime is  *)
(* a count of ticks, TicksPerDay ticks to the day, so that a time of day   *)
(* and the truncation datetime.date() are both represented.                *)
(***************************************************************************)
EXTENDS Integers, Sequences, FiniteSets, TLC

VARIABLES
    \* a call of YFinanceExtractor.fetch_financials
    ext_pc, income_columns, before_date, ext_result,
    \* a call of generate_fake_name
    fn_pc, fn_sector, fn_used, fn_result,
    \* a call of classify_outcome and classify_difficulty on one return
    cl_pc, cl_return, cl_outcome, cl_difficulty,
    \* a call of compute_outcome
    co_pc, co_prices, co_date, co_months, co_result,
    \* a call of generate_snapshots
    gs_pc, gs_prices, gs_config, gs_result,
    \* api/game.py, reveal_outcome, per client: position, arguments, the row fetched,
    \* the price series, the pending transaction, the connection, the response
    rv_pc, rv_request, rv_row, rv_prices, rv_txn, rv_conn, rv_response,
    \* api/game.py, a request of get_next_snapshot
    nx_pc, nx_request, nx_row, nx_conn, nx_response,
    \* api/admin.py: the module-level progress record
    seed_progress,
    \* the database file: the committed rows
    disk,
    \* seed_tickers_with_rate_limit, per job: arguments, position and locals
    pc, tickers, force_refresh, batch_size, idx, used_names, db, txn, frame,
    \* what a job has printed, the commits it has issued, the upstream calls it has made
    stdout, commits, fetches,
    \* the environment: the persistence layer is gone for good; the exceptions raised
    \* so far other than by the outage
    db_down, faults

extVars == <<ext_pc, income_columns, before_date, ext_result>>

fnVars == <<fn_pc, fn_sector, fn_used, fn_result>>

jobVars == <<seed_progress, disk, pc, tickers, force_refresh, batch_size, idx, used_names,
             db, txn, frame, stdout, commits, fetches, db_down, faults>>

clVars == <<cl_pc, cl_return, cl_outcome, cl_difficulty>>

coVars == <<co_pc, co_prices, co_date, co_months, co_result>>

gsVars == <<gs_pc, gs_prices, gs_config, gs_result>>

rvVars == <<rv_pc, rv_request, rv_row, rv_prices, rv_txn, rv_conn, rv_response>>

nxVars == <<nx_pc, nx_request, nx_row, nx_conn, nx_response>>

\* the requests of the game
gameVars == <<rvVars, nxVars>>

\* an ingestion job, the database file apart
jobLocals == <<seed_progress, pc, tickers, force_refresh, batch_size, idx, used_names,
               db, txn, frame, stdout, commits, fetches, db_down, faults>>

\* the calls of the pure functions
callVars == <<extVars, fnVars, clVars, coVars, gsVars>>

\* what a step of an ingestion job leaves alone
nonJobVars == <<callVars, gameVars>>

vars == <<callVars, gameVars, jobVars>>

\* None where the other values are strings
NULL == "None"

\* Optional[float] and Optional[dict]: None is the empty sequence, a value v is <<v>>
None == << >>

Some(v) == <<v>>

Min(a, b) == IF a <= b THEN a ELSE b

Max(a, b) == IF a >= b THEN a ELSE b

Range(s) == {s[k] : k \in DOMAIN s}

----------------------------------------------------------------------------
(* Calendar *)

MIN_SNAPSHOT_YEAR == 2023

\* day 0 is 1 January of this year, thirteen years before the first snapshot year
EpochYear == MIN_SNAPSHOT_YEAR - 13

TicksPerDay == 2

IsLeap(y) == (y % 4 = 0 /\ y % 100 # 0) \/ y % 400 = 0

DaysInYear(y) == IF IsLeap(y) THEN 366 ELSE 365

RECURSIVE JanFirst(_)
\* day ordinal of 1 January of year y
JanFirst(y) == IF y <= EpochYear THEN 0 ELSE JanFirst(y - 1) + DaysInYear(y - 1)

RECURSIVE YearFrom(_, _)
YearFrom(y, d) == IF d < DaysInYear(y) THEN y ELSE YearFrom(y + 1, d - DaysInYear(y))

\* date.year of a day ordinal
YearOf(d) == YearFrom(EpochYear, d)

\* datetime.date(): drop the time of day
DateOf(t) == t \div TicksPerDay

\* a date taken as a datetime at midnight
Midnight(d) == d * TicksPerDay

\* timedelta(days=n) added to a datetime
PlusDays(t, n) == t + n * TicksPerDay

----------------------------------------------------------------------------
(* services/extractor.py *)

MILLION == 1000000

FILING_DELAY_DAYS == 90

LAST_YEARS == 5

\* Python truthiness of an Optional[float]: None and 0.0 are both falsy
Truthy(v) == v # None /\ v[1] # 0

Abs(v) == IF v < 0 THEN -v ELSE v

\* the report date of a period end, as the datetime the cutoff is compared with
ReportDateTime(year_end) == PlusDays(year_end, FILING_DELAY_DAYS)

\* _extract_year: one period to a normalized record, or NULL without revenue
extract_year(col) ==
    LET revenue == col.revenue
        op_cf   == col.op_cf
        capex   == col.capex
        fcf     == IF Truthy(op_cf) /\ Truthy(capex) THEN Some(op_cf[1] - Abs(capex[1])) ELSE None
    IN  IF ~Truthy(revenue) THEN None
        ELSE Some([fiscal_year          |-> YearOf(DateOf(col.year_end)),
                   report_date          |-> DateOf(ReportDateTime(col.year_end)),
                   revenue              |-> revenue[1] \div MILLION,
                   operating_cash_flow  |-> IF Truthy(op_cf) THEN Some(op_cf[1] \div MILLION) ELSE None,
                   capital_expenditures |-> IF Truthy(capex) THEN Some(Abs(capex[1]) \div MILLION) ELSE None,
                   free_cash_flow       |-> IF Truthy(fcf) THEN Some(fcf[1] \div MILLION) ELSE None])

\* a period reported at the very instant of the cutoff is let through
LookAheadLate(year_end, cutoff) == ReportDateTime(year_end) > cutoff

\* the point-in-time check of fetch_financials: TRUE when the period is skipped
LookAhead(year_end, cutoff) == ReportDateTime(year_end) >= cutoff

RECURSIVE CollectRecords(_, _, _)
\* the loop over income.columns, in column order
CollectRecords(cols, cutoff, k) ==
    IF k > Len(cols) THEN << >>
    ELSE LET rest == CollectRecords(cols, cutoff, k + 1)
             rec  == extract_year(cols[k])
         IN  IF LookAhead(cols[k].year_end, cutoff) THEN rest
             ELSE IF rec = None THEN rest
             ELSE rec \o rest

RECURSIVE InsertByYear(_, _)
\* insertion after every element with a key <= r's key: a stable sort step
InsertByYear(sorted, r) ==
    IF sorted = << >> THEN <<r>>
    ELSE IF sorted[1].fiscal_year <= r.fiscal_year
         THEN <<sorted[1]>> \o InsertByYear(Tail(sorted), r)
         ELSE <<r>> \o sorted

RECURSIVE SortByYear(_, _)
\* sorted(records, key=fiscal_year), stable
SortByYear(recs, k) ==
    IF k = 0 THEN << >> ELSE InsertByYear(SortByYear(recs, k - 1), recs[k])

\* s[-n:]
LastN(s, n) == IF Len(s) <= n THEN s ELSE SubSeq(s, Len(s) - n + 1, Len(s))

\* fetch_financials(symbol, before_date) over the statement columns cols
fetch_financials(cols, cutoff) ==
    IF cols = << >> THEN << >>
    ELSE LET recs == CollectRecords(cols, cutoff, 1)
         IN  LastN(SortByYear(recs, Len(recs)), LAST_YEARS)

----------------------------------------------------------------------------
(* fetch_financials as a call: the inputs, then the returned list *)

MaxPeriods == 6

\* the fiscal year whose report date falls on the sampled cutoffs
LastFY == EpochYear + 13

\* 31 December of year y, at midnight (a statement column label)
FYEnd(y) == Midnight(JanFirst(y + 1) - 1)

\* the day on which the LastFY statements count as filed
CutoffDay == DateOf(ReportDateTime(FYEnd(LastFY)))

\* cutoffs at every time of day, from the day before to the day after
Cutoffs == {Midnight(CutoffDay) + t : t \in (0 - TicksPerDay)..(2 * TicksPerDay - 1)}

RevenueHoles == {None, Some(0)}

CashFlowSamples == {None, Some(0), Some(7 * MILLION), Some(2 * MILLION)}

CapexSamples == {None, Some(0), Some(0 - 3 * MILLION), Some(3 * MILLION)}

\* k yearly columns, most recent first (the upstream order); the most recent
\* year end moved by shift days, the column at hole (if any) with revenue rev
Columns(k, shift, hole, rev, cf, cx) ==
    [c \in 1..k |->
        [year_end |-> IF c = 1 THEN PlusDays(FYEnd(LastFY), shift) ELSE FYEnd(LastFY + 1 - c),
         revenue  |-> IF c = hole THEN rev ELSE Some((10 - c) * MILLION),
         op_cf    |-> cf,
         capex    |-> cx]]

Reverse(s) == [k \in 1..Len(s) |-> s[Len(s) + 1 - k]]

\* a change of the fiscal year end: after the second column, a short period that
\* ends on 30 June of the same calendar year
WithShortYear(cols) ==
    IF Len(cols) < 2 THEN cols
    ELSE SubSeq(cols, 1, 2)
            \o <<[cols[2] EXCEPT !.year_end = PlusDays(@, 0 - 184), !.revenue = Some(MILLION)]>>
            \o SubSeq(cols, 3, Len(cols))

ColumnInputs ==
    LET desc == {Columns(k, shift, hole, rev, cf, cx) :
                    k \in 0..MaxPeriods, shift \in {0 - 1, 0, 1}, hole \in 0..MaxPeriods,
                    rev \in RevenueHoles, cf \in CashFlowSamples, cx \in CapexSamples}
    IN  desc \cup {Reverse(s) : s \in desc} \cup {WithShortYear(s) : s \in desc}

ExtIdle ==
    /\ ext_pc = "off"
    /\ income_columns = << >>
    /\ before_date = 0
    /\ ext_result = << >>

ExtInit ==
    /\ ext_pc = "call"
    /\ income_columns \in ColumnInputs
    /\ before_date \in Cutoffs
    /\ ext_result = << >>

FetchFinancials ==
    /\ ext_pc = "call"
    /\ ext_result' = fetch_financials(income_columns, before_date)
    /\ ext_pc' = "returned"
    /\ UNCHANGED <<income_columns, before_date>>

----------------------------------------------------------------------------
(* services/fake_names.py *)

MAX_ATTEMPTS == 100

TechnologyPrefixes == <<"Tech", "Digital", "Cyber", "Cloud", "Data", "Logic", "Sync", "Net">>

HealthcarePrefixes == <<"Med", "Health", "Bio", "Pharma", "Care", "Vital", "Life", "Cure">>

DefaultPrefixes == <<"Company", "Business", "Enterprise">>

\* SECTOR_PREFIXES.get(sector, default); of the table two sectors are entered
SECTOR_PREFIXES(sector) ==
    IF sector = "Technology" THEN TechnologyPrefixes
    ELSE IF sector = "Healthcare" THEN HealthcarePrefixes
    ELSE DefaultPrefixes

SUFFIXES ==
    <<"Alpha", "Beta", "Delta", "Gamma", "Omega", "Prime", "Core", "One", "X", "Plus",
      "Pro", "Max", "Global", "United", "First", "Pacific", "Atlantic", "Apex", "Nova">>

GENERIC == <<"Corp", "Co", "Inc", "Group", "Holdings", "Enterprises", "Industries", "Solutions">>

\* str(uuid.uuid4())[:4].upper(): the draws considered
HexSamples == {"0000"}

\* random.choice(seq), the draw limited to the first element
Choice(seq) == {seq[1]}

\* the formats list of one attempt
Formats(prefix, suffix, generic) ==
    <<prefix \o " " \o suffix,
      prefix \o " " \o suffix \o " " \o generic,
      "The " \o prefix \o " " \o generic,
      suffix \o " " \o prefix,
      prefix \o suffix,
      suffix \o " " \o generic>>

\* the names one attempt can draw
AttemptNames(sector) ==
    UNION {Choice(Formats(prefix, suffix, generic)) :
              prefix \in Choice(SECTOR_PREFIXES(sector)),
              suffix \in Choice(SUFFIXES),
              generic \in Choice(GENERIC)}

\* the fallback after the attempts
FallbackNames == {"Company " \o h : h \in HexSamples}

\* the name is returned when it is not in used_names
Accepts(name, used) == name \notin used

\* one attempt can draw a name that is in used_names
CanCollide(sector, used) == \E name \in AttemptNames(sector) : ~Accepts(name, used)

RECURSIVE AllCollide(_, _, _)
\* n attempts in a row can each draw a name that is in used_names
\* (the range of the loop is split in halves)
AllCollide(n, sector, used) ==
    IF n = 0 THEN TRUE
    ELSE IF n = 1 THEN CanCollide(sector, used)
    ELSE AllCollide(n \div 2, sector, used) /\ AllCollide(n - n \div 2, sector, used)

\* generate_fake_name(sector, used_names), every name a call can return: a name
\* an attempt draws and accepts, or the fallback after MAX_ATTEMPTS collisions
generate_fake_name(sector, used) ==
    {name \in AttemptNames(sector) : MAX_ATTEMPTS > 0 /\ Accepts(name, used)}
        \cup (IF AllCollide(MAX_ATTEMPTS, sector, used) THEN FallbackNames ELSE {})

SectorInputs == {"Technology", "Healthcare", "Aerospace", NULL}

NamePool == UNION {AttemptNames(sector) : sector \in SectorInputs} \cup FallbackNames

\* used_names: nothing, up to two names of the pool, or everything a sector can
\* draw with up to two names more
UsedInputs ==
    {{}} \cup {{a, b} : a \in NamePool, b \in NamePool}
         \cup {AttemptNames(sector) \cup {a, b} : sector \in SectorInputs, a \in NamePool, b \in NamePool}

FnIdle ==
    /\ fn_pc = "off"
    /\ fn_sector = NULL
    /\ fn_used = {}
    /\ fn_result = NULL

FnInit ==
    /\ fn_pc = "call"
    /\ fn_sector \in SectorInputs
    /\ fn_used \in UsedInputs
    /\ fn_result = NULL

GenerateFakeName ==
    /\ fn_pc = "call"
    /\ fn_result' \in generate_fake_name(fn_sector, fn_used)
    /\ fn_pc' = "returned"
    /\ UNCHANGED <<fn_sector, fn_used>>

----------------------------------------------------------------------------
(* services/snapshot_generator.py *)

\* a quotient of two prices less one, kept exact as numerator and denominator
Return(price, t0_price) == [num |-> price - t0_price, den |-> t0_price]

\* r >= p / q and r <= p / q for a return r and q > 0
ReturnGE(r, p, q) == IF r.den > 0 THEN r.num * q >= p * r.den ELSE r.num * q <= p * r.den

ReturnLE(r, p, q) == IF r.den > 0 THEN r.num * q <= p * r.den ELSE r.num * q >= p * r.den

AbsReturn(r) == [num |-> Abs(r.num), den |-> Abs(r.den)]

\* the thresholds taken as strict bounds
classify_outcome_strict(return_24mo) ==
    IF ~ReturnLE(return_24mo, 30, 100) THEN "value"
    ELSE IF ~ReturnGE(return_24mo, 0 - 20, 100) THEN "trap"
    ELSE "neutral"

classify_outcome(return_24mo) ==
    IF ReturnGE(return_24mo, 30, 100) THEN "value"
    ELSE IF ReturnLE(return_24mo, 0 - 20, 100) THEN "trap"
    ELSE "neutral"

\* the thresholds applied to the signed return
classify_difficulty_signed(return_24mo) ==
    IF ReturnGE(return_24mo, 50, 100) THEN "easy"
    ELSE IF ReturnLE(return_24mo, 10, 100) THEN "hard"
    ELSE "medium"

classify_difficulty(return_24mo) ==
    LET abs_return == AbsReturn(return_24mo)
    IN  IF ReturnGE(abs_return, 50, 100) THEN "easy"
        ELSE IF ReturnLE(abs_return, 10, 100) THEN "hard"
        ELSE "medium"

RECURSIVE get_price_after(_, _)
\* the first price dated strictly after target
get_price_after(prices, target) ==
    IF prices = << >> THEN None
    ELSE IF prices[1].date > target THEN Some(prices[1].adj_close)
    ELSE get_price_after(Tail(prices), target)

RECURSIVE get_price(_, _)
\* the first price of the list dated on or after target, or NULL
get_price(prices, target) ==
    IF prices = << >> THEN None
    ELSE IF prices[1].date >= target THEN Some(prices[1].adj_close)
    ELSE get_price(Tail(prices), target)

SIX_MONTHS_DAYS == 182

\* four half-years for the twelve-month horizon: past the forward horizon
TWELVE_MONTHS_DAYS_PAST_FORWARD == 4 * SIX_MONTHS_DAYS

TWELVE_MONTHS_DAYS == 365

DAYS_PER_MONTH == 30

DAYS_PER_YEAR == 365

QUARTER_DAYS == 90

compute_outcome(prices, snapshot_date, forward_months) ==
    LET t0_price  == get_price(prices, snapshot_date)
        t6_price  == get_price(prices, snapshot_date + SIX_MONTHS_DAYS)
        t12_price == get_price(prices, snapshot_date + TWELVE_MONTHS_DAYS)
        t24_price == get_price(prices, snapshot_date + forward_months * DAYS_PER_MONTH)
        return_24mo == Return(t24_price[1], t0_price[1])
    IN  IF ~Truthy(t0_price) \/ ~Truthy(t24_price) THEN None
        ELSE Some([price_at_snapshot |-> t0_price[1],
                   price_at_6mo      |-> t6_price,
                   price_at_12mo     |-> t12_price,
                   price_at_24mo     |-> t24_price[1],
                   return_6mo        |-> IF Truthy(t6_price) THEN Some(Return(t6_price[1], t0_price[1])) ELSE None,
                   return_12mo       |-> IF Truthy(t12_price) THEN Some(Return(t12_price[1], t0_price[1])) ELSE None,
                   return_24mo       |-> return_24mo,
                   outcome_label     |-> classify_outcome(return_24mo),
                   difficulty        |-> classify_difficulty(return_24mo)])

RECURSIVE InsertByDate(_, _)
InsertByDate(sorted, p) ==
    IF sorted = << >> THEN <<p>>
    ELSE IF sorted[1].date <= p.date
         THEN <<sorted[1]>> \o InsertByDate(Tail(sorted), p)
         ELSE <<p>> \o sorted

RECURSIVE SortByDate(_, _)
\* sorted(prices, key=date), stable
SortByDate(prices, k) ==
    IF k = 0 THEN << >> ELSE InsertByDate(SortByDate(prices, k - 1), prices[k])

RECURSIVE SnapshotsFrom(_, _, _, _, _)
\* the while loop of generate_snapshots, from current to latest
SnapshotsFrom(stock_id, prices, current, latest, forward_months) ==
    IF current > latest THEN << >>
    ELSE LET outcome == compute_outcome(prices, current, forward_months)
             rest    == SnapshotsFrom(stock_id, prices, current + QUARTER_DAYS, latest, forward_months)
         IN  IF ~(outcome # None) THEN rest
             ELSE <<[stock_id |-> stock_id, snapshot_date |-> current] @@ outcome[1]>> \o rest

generate_snapshots(stock_id, unsorted, min_history_years, forward_months, min_snapshot_year) ==
    IF unsorted = << >> THEN << >>
    ELSE LET prices     == SortByDate(unsorted, Len(unsorted))
             first_date == prices[1].date
             last_date  == prices[Len(prices)].date
             latest     == last_date - forward_months * DAYS_PER_MONTH
             min_date   == JanFirst(min_snapshot_year)
             earliest   == Max(first_date + min_history_years * DAYS_PER_YEAR, min_date)
         IN  IF earliest >= latest THEN << >>
             ELSE SnapshotsFrom(stock_id, prices, earliest, latest, forward_months)

MIN_HISTORY_YEARS == 5

FORWARD_MONTHS == 24

----------------------------------------------------------------------------
(* classify_outcome and classify_difficulty as a call: a return, then the labels *)

MaxReturnSteps == 600

\* returns written as decimals: tenths, hundredths and thousandths
ReturnInputs ==
    {[num |-> n, den |-> d] : n \in (0 - MaxReturnSteps)..MaxReturnSteps, d \in {10, 100, 1000}}

ClIdle ==
    /\ cl_pc = "off"
    /\ cl_return = [num |-> 0, den |-> 1]
    /\ cl_outcome = NULL
    /\ cl_difficulty = NULL

ClInit ==
    /\ cl_pc = "call"
    /\ cl_return \in ReturnInputs
    /\ cl_outcome = NULL
    /\ cl_difficulty = NULL

Classify ==
    /\ cl_pc = "call"
    /\ cl_outcome' = classify_outcome(cl_return)
    /\ cl_difficulty' = classify_difficulty(cl_return)
    /\ cl_pc' = "returned"
    /\ UNCHANGED cl_return

----------------------------------------------------------------------------
(* compute_outcome as a call: a date-sorted series, a date, then the outcome *)

RECURSIVE SeriesOver(_, _)
\* the series that have, at each of the dates, no price or one of the values
SeriesOver(dates, values) ==
    IF dates = << >> THEN {<< >>}
    ELSE LET rest == SeriesOver(Tail(dates), values)
         IN  rest \cup {<<[date |-> dates[1], adj_close |-> v]>> \o series :
                            v \in values, series \in rest}

\* 1 January 2020, the snapshot date of the tests
TestDay == JanFirst(2020)

\* the series of test_compute_outcome_calculates_correct_return
ExamplePrices ==
    <<[date |-> JanFirst(2020), adj_close |-> 100],
      [date |-> JanFirst(2020) + 182, adj_close |-> 110],
      [date |-> JanFirst(2021), adj_close |-> 120],
      [date |-> JanFirst(2022), adj_close |-> 150]>>

\* prices on the snapshot date and on the days the horizons fall on; a price
\* can be 0.0
CoPriceDays == <<TestDay, TestDay + 30, TestDay + 182, TestDay + 365, TestDay + 720, TestDay + 731>>

CoPriceValues == {0, 100, 130}

CoSeriesInputs == SeriesOver(CoPriceDays, CoPriceValues) \cup {ExamplePrices}

CoDateInputs == {TestDay - 1, TestDay, TestDay + 1}

CoMonthsInputs == {1, 12, FORWARD_MONTHS}

CoIdle ==
    /\ co_pc = "off"
    /\ co_prices = << >>
    /\ co_date = 0
    /\ co_months = 0
    /\ co_result = None

CoInit ==
    /\ co_pc = "call"
    /\ co_prices \in CoSeriesInputs
    /\ co_date \in CoDateInputs
    /\ co_months \in CoMonthsInputs
    /\ co_result = None

ComputeOutcome ==
    /\ co_pc = "call"
    /\ co_result' = compute_outcome(co_prices, co_date, co_months)
    /\ co_pc' = "returned"
    /\ UNCHANGED <<co_prices, co_date, co_months>>

----------------------------------------------------------------------------
(* generate_snapshots as a call: a series and a configuration, then the list *)

\* the first day of the sampled series, a quarter before a 1 January
GsFirstDay == JanFirst(EpochYear + 1) - QUARTER_DAYS

GsPriceDays ==
    <<GsFirstDay, GsFirstDay + 30, GsFirstDay + 90, GsFirstDay + 180, GsFirstDay + 210>>

GsPriceValues == {0, 100, 130}

\* series in date order and in the reverse order
GsSeriesInputs ==
    LET sorted == SeriesOver(GsPriceDays, GsPriceValues)
    IN  sorted \cup {Reverse(series) : series \in sorted}

GsConfigInputs ==
    [min_history_years : {0, 1}, forward_months : {0, 1, FORWARD_MONTHS},
     min_snapshot_year : {EpochYear, EpochYear + 1}]

GsStockId == CHOOSE id \in {1} : TRUE

GsIdle ==
    /\ gs_pc = "off"
    /\ gs_prices = << >>
    /\ gs_config = [min_history_years |-> 0, forward_months |-> 0, min_snapshot_year |-> 0]
    /\ gs_result = << >>

GsInit ==
    /\ gs_pc = "call"
    /\ gs_prices \in GsSeriesInputs
    /\ gs_config \in GsConfigInputs
    /\ gs_result = << >>

GenerateSnapshots ==
    /\ gs_pc = "call"
    /\ gs_result' = generate_snapshots(GsStockId, gs_prices, gs_config.min_history_years,
                                       gs_config.forward_months, gs_config.min_snapshot_year)
    /\ gs_pc' = "returned"
    /\ UNCHANGED <<gs_prices, gs_config>>

----------------------------------------------------------------------------
(* services/database.py: the tables, as sets of rows *)

EmptyDb == [stocks |-> {}, price_history |-> {}, financials |-> {}, snapshots |-> {}]

\* AUTOINCREMENT: one more than the largest id of the table
NextId(rows) == IF rows = {} THEN 1 ELSE 1 + CHOOSE m \in {r.id : r \in rows} : \A r \in rows : r.id <= m

\* str.upper() on the ticker symbols of the model
Upper(ticker) == IF ticker = "aaa" THEN "AAA" ELSE ticker

StockOf(d, ticker) == {r \in d.stocks : r.ticker = Upper(ticker)}

\* INSERT INTO stocks ... ON CONFLICT(ticker) DO UPDATE SET company_name, sector, ...
UpsertStock(d, ticker, info, fake_name) ==
    IF StockOf(d, ticker) = {}
    THEN [d EXCEPT !.stocks = @ \cup {[id |-> NextId(d.stocks), ticker |-> Upper(ticker),
                                       company_name |-> info.company_name, fake_name |-> fake_name,
                                       sector |-> info.sector, is_active |-> TRUE]}]
    ELSE [d EXCEPT !.stocks = {IF r.ticker = Upper(ticker)
                               THEN [r EXCEPT !.company_name = info.company_name, !.sector = info.sector]
                               ELSE r : r \in @}]

\* INSERT OR IGNORE INTO price_history, UNIQUE(stock_id, date)
InsertPrice(d, stock_id, p) ==
    IF \E r \in d.price_history : r.stock_id = stock_id /\ r.date = p.date THEN d
    ELSE [d EXCEPT !.price_history = @ \cup {[stock_id |-> stock_id, date |-> p.date, adj_close |-> p.adj_close]}]

\* INSERT OR REPLACE INTO financials, UNIQUE(stock_id, fiscal_year)
ReplaceFinancial(d, stock_id, f) ==
    [d EXCEPT !.financials =
        {r \in @ : ~(r.stock_id = stock_id /\ r.fiscal_year = f.fiscal_year)}
            \cup {[stock_id |-> stock_id] @@ f}]

\* INSERT OR REPLACE INTO snapshots: the row of the key is deleted and written anew
InsertSnapshotReplace(d, s) ==
    LET kept == {r \in d.snapshots : ~(r.stock_id = s.stock_id /\ r.snapshot_date = s.snapshot_date)}
    IN  [d EXCEPT !.snapshots = kept \cup
            {[id |-> NextId(d.snapshots), stock_id |-> s.stock_id, snapshot_date |-> s.snapshot_date,
              times_played |-> 0, correct_guesses |-> 0] @@ s}]

\* a plain INSERT INTO snapshots on a table without the UNIQUE constraint
InsertSnapshotAlways(d, s) ==
    [d EXCEPT !.snapshots = @ \cup
        {[id |-> NextId(d.snapshots), stock_id |-> s.stock_id, snapshot_date |-> s.snapshot_date,
          times_played |-> 0, correct_guesses |-> 0] @@ s}]

\* INSERT OR IGNORE INTO snapshots, UNIQUE(stock_id, snapshot_date)
InsertSnapshot(d, s) ==
    IF \E r \in d.snapshots : r.stock_id = s.stock_id /\ r.snapshot_date = s.snapshot_date THEN d
    ELSE [d EXCEPT !.snapshots = @ \cup
            {[id |-> NextId(d.snapshots), stock_id |-> s.stock_id, snapshot_date |-> s.snapshot_date,
              times_played |-> 0, correct_guesses |-> 0] @@ s}]

RECURSIVE InsertPrices(_, _, _, _)
\* the first n rows of the price loop
InsertPrices(d, stock_id, prices, n) ==
    IF n = 0 THEN d ELSE InsertPrice(InsertPrices(d, stock_id, prices, n - 1), stock_id, prices[n])

RECURSIVE InsertFinancials(_, _, _, _)
InsertFinancials(d, stock_id, financials, n) ==
    IF n = 0 THEN d
    ELSE ReplaceFinancial(InsertFinancials(d, stock_id, financials, n - 1), stock_id, financials[n])

RECURSIVE InsertSnapshots(_, _, _)
InsertSnapshots(d, snapshots, n) ==
    IF n = 0 THEN d ELSE InsertSnapshot(InsertSnapshots(d, snapshots, n - 1), snapshots[n])

----------------------------------------------------------------------------
(* api/admin.py: seed_tickers_with_rate_limit and seed_single_ticker *)

MaxTickers == 2

BatchSize == 2

\* two calls of seed_tickers_with_rate_limit
Jobs == {1, 2}

TickerNames == {"AAA", "BBB"}

RECURSIVE SeqsUpTo(_, _)
SeqsUpTo(S, n) ==
    IF n = 0 THEN {<< >>}
    ELSE LET shorter == SeqsUpTo(S, n - 1)
         IN  shorter \cup {Append(q, x) : q \in {r \in shorter : Len(r) = n - 1}, x \in S}

TickerLists == SeqsUpTo(TickerNames, MaxTickers)

\* datetime.now() of the jobs: midday, two years after the LastFY statements were filed
JobNow == Midnight(JanFirst(LastFY + 2) + 89) + 1

\* fetch_company_info: an unresolved symbol, or a company
InfoSamples ==
    {[company_name |-> "Unknown", sector |-> NULL],
     [company_name |-> "Acme Corp", sector |-> "Technology"]}

SamplePrices ==
    <<[date |-> JanFirst(LastFY - 9) + 1, adj_close |-> 100],
      [date |-> JanFirst(LastFY) + 2, adj_close |-> 100],
      [date |-> JanFirst(LastFY) + 92, adj_close |-> 120],
      [date |-> DateOf(JobNow) - 3, adj_close |-> 160]>>

\* fetch_prices: no history, or ten years of it
PriceSamples == {<< >>, SamplePrices}

\* the statement columns upstream serves to a job
JobColumns == Columns(2, 0, 0, None, Some(7 * MILLION), Some(0 - 3 * MILLION))

IdleProgress ==
    [status |-> "idle", total |-> 0, processed |-> 0, successful |-> 0, failed |-> 0,
     current_ticker |-> NULL, errors |-> << >>]

\* the record is updated in place: what it held stays
RunningProgressInPlace(n) == [seed_progress EXCEPT !.status = "running", !.total = n]

\* _seed_progress = {...}: the name is bound to a new record
RunningProgress(n) == [IdleProgress EXCEPT !.status = "running", !.total = n]

NoInfo == [company_name |-> "", sector |-> NULL]

NoFrame == [info |-> NoInfo, fake_name |-> NULL, stock_id |-> 0, prices |-> << >>]

\* no connection yet: the state of the connection, the calls of get_db and of close
NoDb == [state |-> "none", opens |-> 0, closes |-> 0]

\* what the job's connection reads: its open transaction, or the committed rows
View(j) == IF txn[j] = None THEN disk ELSE txn[j][1]

\* a store operation raises: the layer is gone, or it goes away with this
\* operation, for good
StoreRaises ==
    \/ db_down /\ UNCHANGED <<db_down, faults>>
    \/ ~db_down /\ db_down' = TRUE /\ UNCHANGED faults

\* an INSERT of the price loop or a commit raises: as any store operation, or on
\* its own while the layer stays (the first exception that is not an outage)
StoreFails ==
    \/ StoreRaises
    \/ ~db_down /\ faults = 0 /\ faults' = faults + 1 /\ UNCHANGED db_down

\* a store operation succeeds
StoreWorks == ~db_down /\ UNCHANGED <<db_down, faults>>

\* an upstream call raises (the first exception that is not an outage)
UpstreamRaises == faults = 0 /\ faults' = faults + 1 /\ UNCHANGED db_down

\* the statements of an insert loop of n rows at which an exception is raised
RaiseAt(n) == IF n = 0 THEN {} ELSE {1, n}

StoreError == "OperationalError"

UpstreamError == "HTTPError"

\* where the loop goes after the batch commit, or when there is none
AfterCommitPc(j) == IF idx[j] < Len(tickers[j]) THEN "sleep" ELSE "final_commit"

\* the batch commit test taken on the zero-based loop index i
BatchBoundaryOnIndex(j) == (idx[j] - 1) % batch_size[j] = 0

\* the batch commit test of the loop, i + 1 being idx
BatchBoundary(j) == idx[j] % batch_size[j] = 0

AfterTickerPc(j) == IF BatchBoundary(j) THEN "commit" ELSE AfterCommitPc(j)

\* the status is set while the loop is still running
OnSuccessCompletes(p) == [p EXCEPT !.successful = @ + 1, !.status = "completed"]

\* result["success"]: counted, and the name kept
OnSuccess(p) == [p EXCEPT !.successful = @ + 1]

\* a failure result that is recorded and not counted
OnFailureUncounted(p, ticker, error) ==
    [p EXCEPT !.errors = IF error # "" THEN Append(@, [ticker |-> ticker, error |-> error]) ELSE @]

\* a failure result: counted, and recorded when it carries an error
OnFailure(p, ticker, error) ==
    [p EXCEPT !.failed = @ + 1,
              !.errors = IF error # "" THEN Append(@, [ticker |-> ticker, error |-> error]) ELSE @]

\* an exception that is counted and leaves no record
OnExceptionUnrecorded(p, ticker, error) == [p EXCEPT !.failed = @ + 1]

\* an exception of seed_single_ticker: counted and recorded
OnException(p, ticker, error) ==
    [p EXCEPT !.failed = @ + 1, !.errors = Append(@, [ticker |-> ticker, error |-> error])]

\* the name a successful ticker adds to used_names: result.get("fake_name", "")
KeptName(result) == IF result.fake_name = NULL THEN "" ELSE result.fake_name

\* the end of one loop iteration: the result or the exception of seed_single_ticker
\* is counted, processed is incremented, and the loop moves on
TickerDone(j, result) ==
    LET ticker == tickers[j][idx[j]]
        p1 == IF result.raised THEN OnException(seed_progress, ticker, result.error)
              ELSE IF result.success THEN OnSuccess(seed_progress)
              ELSE OnFailure(seed_progress, ticker, result.error)
    IN  /\ seed_progress' = [p1 EXCEPT !.processed = @ + 1]
        /\ used_names' = [used_names EXCEPT ![j] =
                            IF result.success THEN @ \cup {KeptName(result)} ELSE @]
        /\ stdout' = [stdout EXCEPT ![j] = Append(@, [ticker |-> ticker, success |-> result.success])]
        /\ frame' = [frame EXCEPT ![j] = NoFrame]
        /\ pc' = [pc EXCEPT ![j] = AfterTickerPc(j)]

Success(fake_name) == [success |-> TRUE, raised |-> FALSE, error |-> NULL, fake_name |-> fake_name]

Failure(error) == [success |-> FALSE, raised |-> FALSE, error |-> error, fake_name |-> NULL]

Raise(error) == [success |-> FALSE, raised |-> TRUE, error |-> error, fake_name |-> NULL]

\* an outer except that leaves without the finally block
ErrorPcNoFinally == "done"

\* the outer except and what follows it
ErrorPc == "close"

JobError(j) ==
    /\ seed_progress' = [seed_progress EXCEPT !.status = "error",
                            !.errors = Append(@, [ticker |-> "GLOBAL", error |-> StoreError])]
    /\ pc' = [pc EXCEPT ![j] = ErrorPc]

\* the job is called; a job starts only when the one before it has ended
CanStart(j) == pc[j] = "idle" /\ (IF j = 1 THEN TRUE ELSE pc[j - 1] = "done")

\* the frames of ended jobs are gone
Ended(f, init) == [k \in Jobs |-> IF pc[k] = "done" THEN init ELSE f[k]]

\* the first statements of seed_tickers_with_rate_limit, up to its first await
Begin(j) ==
    /\ \E list \in TickerLists, force \in BOOLEAN, size \in 1..BatchSize :
        /\ tickers' = [Ended(tickers, << >>) EXCEPT ![j] = list]
        /\ force_refresh' = [Ended(force_refresh, FALSE) EXCEPT ![j] = force]
        /\ batch_size' = [Ended(batch_size, BatchSize) EXCEPT ![j] = size]
        /\ seed_progress' = RunningProgress(Len(list))
    /\ pc' = [pc EXCEPT ![j] = "get_db"]
    /\ idx' = Ended(idx, 0)
    /\ used_names' = Ended(used_names, {})
    /\ stdout' = Ended(stdout, << >>)
    /\ commits' = Ended(commits, << >>)
    /\ fetches' = Ended(fetches, 0)
    /\ db' = [db EXCEPT ![j] = NoDb]
    /\ UNCHANGED <<disk, txn, frame, db_down, faults>>
    /\ UNCHANGED nonJobVars

\* a job is started when no other job runs
Start(j) == CanStart(j) /\ Begin(j)

\* another job is between its start and its end
OthersRun(j) == \E k \in Jobs \ {j} : pc[k] \notin {"off", "idle", "done"}

\* a job is started while another job runs: the background tasks of two requests
\* take turns at their awaits
StartOverlapping(j) == pc[j] = "idle" /\ OthersRun(j) /\ Begin(j)

\* get_db(): the connection, or an exception outside the try
GetDb(j) ==
    /\ pc[j] = "get_db"
    /\ \/ /\ StoreWorks
          /\ db' = [db EXCEPT ![j] = [state |-> "open", opens |-> @.opens + 1, closes |-> @.closes]]
          /\ pc' = [pc EXCEPT ![j] = "used_names"]
       \/ /\ StoreRaises
          /\ pc' = [pc EXCEPT ![j] = "done"]
          /\ UNCHANGED db
    /\ UNCHANGED <<seed_progress, disk, tickers, force_refresh, batch_size, idx, used_names,
                   txn, frame, stdout, commits, fetches>>
    /\ UNCHANGED nonJobVars

\* the loop header: the next ticker becomes current and seed_single_ticker is entered
EnterTicker(j, i) ==
    /\ idx' = [idx EXCEPT ![j] = i]
    /\ seed_progress' = [seed_progress EXCEPT !.current_ticker = tickers[j][i]]
    /\ pc' = [pc EXCEPT ![j] = "check_exists"]

\* SELECT fake_name FROM stocks, then the first loop iteration or the final commit
LoadUsedNames(j) ==
    /\ pc[j] = "used_names"
    /\ \/ /\ StoreWorks
          /\ used_names' = [used_names EXCEPT ![j] = {r.fake_name : r \in View(j).stocks}]
          /\ IF tickers[j] = << >>
             THEN pc' = [pc EXCEPT ![j] = "final_commit"] /\ UNCHANGED <<idx, seed_progress>>
             ELSE EnterTicker(j, 1)
       \/ /\ StoreRaises
          /\ JobError(j)
          /\ UNCHANGED <<used_names, idx>>
    /\ UNCHANGED <<disk, tickers, force_refresh, batch_size, db, txn, frame, stdout,
                   commits, fetches>>
    /\ UNCHANGED nonJobVars

\* no ticker is ever skipped
SkipsNever(existing, force) == FALSE

\* seed_single_ticker skips the ticker: the row exists and force is off
Skips(existing, force) == existing /\ ~force

\* seed_single_ticker up to the upsert: the existence check, the company info, the name
CheckExists(j) ==
    LET ticker   == tickers[j][idx[j]]
        existing == StockOf(View(j), ticker) # {}
    IN
    /\ pc[j] = "check_exists"
    /\ \/ \* the SELECT raises
          /\ StoreRaises
          /\ TickerDone(j, Raise(StoreError))
          /\ UNCHANGED fetches
       \/ \* already exists
          /\ StoreWorks
          /\ Skips(existing, force_refresh[j])
          /\ TickerDone(j, Success(NULL))
          /\ UNCHANGED <<fetches>>
       \/ \* fetch_company_info raises
          /\ ~db_down
          /\ ~Skips(existing, force_refresh[j])
          /\ UpstreamRaises
          /\ fetches' = [fetches EXCEPT ![j] = @ + 1]
          /\ TickerDone(j, Raise(UpstreamError))
       \/ \* the company is not found, or it is and a name is generated
          /\ StoreWorks
          /\ ~Skips(existing, force_refresh[j])
          /\ fetches' = [fetches EXCEPT ![j] = @ + 1]
          /\ \E info \in InfoSamples :
               IF info.company_name = "Unknown"
               THEN TickerDone(j, Failure("Company not found"))
               ELSE \E name \in generate_fake_name(info.sector, used_names[j]) :
                      /\ frame' = [frame EXCEPT ![j] = [NoFrame EXCEPT !.info = info, !.fake_name = name]]
                      /\ pc' = [pc EXCEPT ![j] = "upsert"]
                      /\ UNCHANGED <<seed_progress, used_names, stdout>>
    /\ UNCHANGED <<disk, tickers, force_refresh, batch_size, idx, db, txn, commits>>
    /\ UNCHANGED nonJobVars

\* a statement that writes opens the transaction, or goes on in it; it waits while
\* the connection of a request or of another job holds the write lock
Written(j, d) ==
    /\ \A c \in DOMAIN rv_txn : rv_txn[c] = None
    /\ \A k \in Jobs \ {j} : txn[k] = None
    /\ txn' = [txn EXCEPT ![j] = Some(d)]

\* INSERT INTO stocks ... ON CONFLICT DO UPDATE
Upsert(j) ==
    /\ pc[j] = "upsert"
    /\ \/ /\ StoreWorks
          /\ Written(j, UpsertStock(View(j), tickers[j][idx[j]], frame[j].info, frame[j].fake_name))
          /\ pc' = [pc EXCEPT ![j] = "get_id"]
          /\ UNCHANGED <<seed_progress, used_names, stdout, frame>>
       \/ /\ StoreRaises
          /\ TickerDone(j, Raise(StoreError))
          /\ UNCHANGED txn
    /\ UNCHANGED <<disk, tickers, force_refresh, batch_size, idx, db, commits, fetches>>
    /\ UNCHANGED nonJobVars

\* SELECT id FROM stocks, then fetch_prices
GetStockId(j) ==
    LET row == CHOOSE r \in StockOf(View(j), tickers[j][idx[j]]) : TRUE
    IN
    /\ pc[j] = "get_id"
    /\ \/ /\ StoreRaises
          /\ TickerDone(j, Raise(StoreError))
          /\ UNCHANGED fetches
       \/ /\ ~db_down
          /\ UpstreamRaises
          /\ fetches' = [fetches EXCEPT ![j] = @ + 1]
          /\ TickerDone(j, Raise(UpstreamError))
       \/ /\ StoreWorks
          /\ fetches' = [fetches EXCEPT ![j] = @ + 1]
          /\ \E prices \in PriceSamples :
               IF prices = << >>
               THEN TickerDone(j, Failure("No price history found"))
               ELSE /\ frame' = [frame EXCEPT ![j].stock_id = row.id, ![j].prices = prices]
                    /\ pc' = [pc EXCEPT ![j] = "insert_prices"]
                    /\ UNCHANGED <<seed_progress, used_names, stdout>>
    /\ UNCHANGED <<disk, tickers, force_refresh, batch_size, idx, db, txn, commits>>
    /\ UNCHANGED nonJobVars

\* the price loop, then fetch_financials
InsertPriceRows(j) ==
    LET f == frame[j]
    IN
    /\ pc[j] = "insert_prices"
    /\ \/ \* the k-th INSERT raises
          /\ StoreFails
          /\ \E k \in RaiseAt(Len(f.prices)) :
               IF k = 1 THEN UNCHANGED txn
               ELSE Written(j, InsertPrices(View(j), f.stock_id, f.prices, k - 1))
          /\ TickerDone(j, Raise(StoreError))
          /\ UNCHANGED fetches
       \/ \* fetch_financials raises
          /\ ~db_down
          /\ UpstreamRaises
          /\ Written(j, InsertPrices(View(j), f.stock_id, f.prices, Len(f.prices)))
          /\ fetches' = [fetches EXCEPT ![j] = @ + 1]
          /\ TickerDone(j, Raise(UpstreamError))
       \/ /\ StoreWorks
          /\ Written(j, InsertPrices(View(j), f.stock_id, f.prices, Len(f.prices)))
          /\ fetches' = [fetches EXCEPT ![j] = @ + 1]
          /\ pc' = [pc EXCEPT ![j] = "insert_financials"]
          /\ UNCHANGED <<seed_progress, used_names, stdout, frame>>
    /\ UNCHANGED <<disk, tickers, force_refresh, batch_size, idx, db, commits>>
    /\ UNCHANGED nonJobVars

\* the financial years a job gets: fetch_financials(ticker, now)
JobFinancials == fetch_financials(JobColumns, JobNow)

\* the financials loop
InsertFinancialRows(j) ==
    LET f == frame[j]
    IN
    /\ pc[j] = "insert_financials"
    /\ \/ /\ StoreRaises
          /\ \E k \in RaiseAt(Len(JobFinancials)) :
               IF k = 1 THEN UNCHANGED txn
               ELSE Written(j, InsertFinancials(View(j), f.stock_id, JobFinancials, k - 1))
          /\ TickerDone(j, Raise(StoreError))
       \/ /\ StoreWorks
          /\ Written(j, InsertFinancials(View(j), f.stock_id, JobFinancials, Len(JobFinancials)))
          /\ pc' = [pc EXCEPT ![j] = "insert_snapshots"]
          /\ UNCHANGED <<seed_progress, used_names, stdout, frame>>
    /\ UNCHANGED <<disk, tickers, force_refresh, batch_size, idx, db, commits, fetches>>
    /\ UNCHANGED nonJobVars

\* generate_snapshots and the snapshot loop, then the success result
InsertSnapshotRows(j) ==
    LET f == frame[j]
        snapshots == generate_snapshots(f.stock_id, f.prices,
                                        MIN_HISTORY_YEARS, FORWARD_MONTHS, MIN_SNAPSHOT_YEAR)
    IN
    /\ pc[j] = "insert_snapshots"
    /\ \/ /\ StoreRaises
          /\ \E k \in RaiseAt(Len(snapshots)) :
               IF k = 1 THEN UNCHANGED txn
               ELSE Written(j, InsertSnapshots(View(j), snapshots, k - 1))
          /\ TickerDone(j, Raise(StoreError))
       \/ /\ StoreWorks
          /\ Written(j, InsertSnapshots(View(j), snapshots, Len(snapshots)))
          /\ TickerDone(j, Success(f.fake_name))
    /\ UNCHANGED <<disk, tickers, force_refresh, batch_size, idx, db, commits, fetches>>
    /\ UNCHANGED nonJobVars

\* db.commit(): the transaction's rows become the committed rows
Committed(j) ==
    /\ disk' = View(j)
    /\ txn' = [txn EXCEPT ![j] = None]
    /\ commits' = [commits EXCEPT ![j] = Append(@, idx[j])]

\* the batch commit after every batch_size-th ticker
BatchCommit(j) ==
    /\ pc[j] = "commit"
    /\ \/ /\ StoreWorks
          /\ Committed(j)
          /\ pc' = [pc EXCEPT ![j] = AfterCommitPc(j)]
          /\ UNCHANGED <<seed_progress>>
       \/ /\ StoreFails
          /\ JobError(j)
          /\ commits' = [commits EXCEPT ![j] = Append(@, idx[j])]
          /\ UNCHANGED <<disk, txn>>
    /\ UNCHANGED <<tickers, force_refresh, batch_size, idx, used_names, db, frame, stdout,
                   fetches>>
    /\ UNCHANGED nonJobVars

\* asyncio.sleep(delay_seconds), then the next loop iteration
Sleep(j) ==
    /\ pc[j] = "sleep"
    /\ EnterTicker(j, idx[j] + 1)
    /\ UNCHANGED <<disk, tickers, force_refresh, batch_size, used_names, db, txn, frame,
                   stdout, commits, fetches, db_down, faults>>
    /\ UNCHANGED nonJobVars

\* the final commit, then status completed
FinalCommit(j) ==
    /\ pc[j] = "final_commit"
    /\ \/ /\ StoreWorks
          /\ Committed(j)
          /\ seed_progress' = [seed_progress EXCEPT !.status = "completed", !.current_ticker = NULL]
          /\ pc' = [pc EXCEPT ![j] = "close"]
       \/ /\ StoreFails
          /\ JobError(j)
          /\ commits' = [commits EXCEPT ![j] = Append(@, idx[j])]
          /\ UNCHANGED <<disk, txn>>
    /\ UNCHANGED <<tickers, force_refresh, batch_size, idx, used_names, db, frame, stdout,
                   fetches>>
    /\ UNCHANGED nonJobVars

\* finally: db.close(); what was not committed is rolled back
Close(j) ==
    /\ pc[j] = "close"
    /\ db' = [db EXCEPT ![j] = [state |-> "closed", opens |-> @.opens, closes |-> @.closes + 1]]
    /\ txn' = [txn EXCEPT ![j] = None]
    /\ pc' = [pc EXCEPT ![j] = "done"]
    /\ UNCHANGED <<seed_progress, disk, tickers, force_refresh, batch_size, idx, used_names,
                   frame, stdout, commits, fetches, db_down, faults>>
    /\ UNCHANGED nonJobVars

\* no job is admitted
JobOff ==
    /\ seed_progress = IdleProgress
    /\ pc = [j \in Jobs |-> "off"]
    /\ tickers = [j \in Jobs |-> << >>]
    /\ force_refresh = [j \in Jobs |-> FALSE]
    /\ batch_size = [j \in Jobs |-> BatchSize]
    /\ idx = [j \in Jobs |-> 0]
    /\ used_names = [j \in Jobs |-> {}]
    /\ db = [j \in Jobs |-> NoDb]
    /\ txn = [j \in Jobs |-> None]
    /\ frame = [j \in Jobs |-> NoFrame]
    /\ stdout = [j \in Jobs |-> << >>]
    /\ commits = [j \in Jobs |-> << >>]
    /\ fetches = [j \in Jobs |-> 0]
    /\ db_down = FALSE
    /\ faults = 0

JobIdle == JobOff /\ disk = EmptyDb

JobInit ==
    /\ seed_progress = IdleProgress
    /\ disk = EmptyDb
    /\ pc = [j \in Jobs |-> "idle"]
    /\ tickers = [j \in Jobs |-> << >>]
    /\ force_refresh = [j \in Jobs |-> FALSE]
    /\ batch_size = [j \in Jobs |-> BatchSize]
    /\ idx = [j \in Jobs |-> 0]
    /\ used_names = [j \in Jobs |-> {}]
    /\ db = [j \in Jobs |-> NoDb]
    /\ txn = [j \in Jobs |-> None]
    /\ frame = [j \in Jobs |-> NoFrame]
    /\ stdout = [j \in Jobs |-> << >>]
    /\ commits = [j \in Jobs |-> << >>]
    /\ fetches = [j \in Jobs |-> 0]
    /\ db_down = FALSE
    /\ faults = 0

----------------------------------------------------------------------------
(* the database a game request finds: tickers seeded by seed_single_ticker *)

\* the first price of a seeded ticker: MIN_HISTORY_YEARS * 365 days before the first
\* snapshot date
GamePriceStart == JanFirst(MIN_SNAPSHOT_YEAR - MIN_HISTORY_YEARS) + 1

\* the n-th quarterly snapshot date
Quarter(n) == JanFirst(MIN_SNAPSHOT_YEAR) + n * QUARTER_DAYS

\* a price history: 100 up to each snapshot date, and finals[k] from
\* FORWARD_MONTHS * 30 days after the k-th snapshot date
GamePrices(finals) ==
    <<[date |-> GamePriceStart, adj_close |-> 100]>>
        \o [k \in 1..Len(finals) |-> [date |-> Quarter(k - 1), adj_close |-> 100]]
        \o [k \in 1..Len(finals) |->
                [date |-> Quarter(k - 1) + FORWARD_MONTHS * DAYS_PER_MONTH, adj_close |-> finals[k]]]

\* the records of _extract_year for n fiscal years that end FILING_DELAY_DAYS before
\* 1 January, the latest of them reported on 1 January after MIN_SNAPSHOT_YEAR
GameFinancials(n) ==
    [k \in 1..n |->
        extract_year([year_end |-> Midnight(JanFirst(MIN_SNAPSHOT_YEAR + 2 - k) - FILING_DELAY_DAYS),
                      revenue  |-> Some((10 - k) * MILLION),
                      op_cf    |-> Some(7 * MILLION),
                      capex    |-> Some(0 - 3 * MILLION)])[1]]

\* the rows seed_single_ticker writes for one ticker
Seeded(d, ticker, info, fake_name, prices, financials) ==
    LET d1       == UpsertStock(d, ticker, info, fake_name)
        stock_id == (CHOOSE r \in StockOf(d1, ticker) : TRUE).id
        d2       == InsertPrices(d1, stock_id, prices, Len(prices))
        d3       == InsertFinancials(d2, stock_id, financials, Len(financials))
        snapshots == generate_snapshots(stock_id, prices,
                                        MIN_HISTORY_YEARS, FORWARD_MONTHS, MIN_SNAPSHOT_YEAR)
    IN  InsertSnapshots(d3, snapshots, Len(snapshots))

\* is_active is written by no statement of the program: a row switched off by hand
Deactivated(d, ticker) ==
    [d EXCEPT !.stocks = {IF r.ticker = ticker THEN [r EXCEPT !.is_active = FALSE] ELSE r : r \in @}]

\* one ticker: a value, a trap and a neutral snapshot, eight fiscal years
StoreOne ==
    Seeded(EmptyDb, "AAA", [company_name |-> "Acme Corp", sector |-> "Technology"],
           "Tech Alpha", GamePrices(<<150, 75, 110>>), GameFinancials(8))

\* a second ticker without a sector: a value and a trap snapshot, two fiscal years
StoreTwo ==
    Seeded(StoreOne, "BBB", [company_name |-> "Unknown", sector |-> NULL],
           "Company Alpha", GamePrices(<<130, 50>>), GameFinancials(2))

GameStores == {EmptyDb, StoreOne, StoreTwo, Deactivated(StoreTwo, "AAA")}

\* the ids requests name: snapshots of the stores, and one that no store holds
GameIds == {1, 3, 4, 9}

----------------------------------------------------------------------------
(* api/game.py: reveal_outcome *)

Clients == {1, 2}

\* the rows of a SELECT ... ORDER BY date
RECURSIVE OrderByDate(_)
OrderByDate(rows) ==
    IF rows = {} THEN << >>
    ELSE LET first == CHOOSE r \in rows : \A o \in rows : r.date <= o.date
         IN  <<first>> \o OrderByDate(rows \ {first})

\* SQLite's date(d, '+24 months'): the same month and day two years on, 29 February
\* becoming 1 March
PlusTwoYears(d) ==
    LET y   == YearOf(d)
        off == d - JanFirst(y)
    IN  JanFirst(y + 2) + (IF IsLeap(y) /\ ~IsLeap(y + 2) /\ off >= 60 THEN off - 1
                           ELSE IF ~IsLeap(y) /\ IsLeap(y + 2) /\ off >= 59 THEN off + 1
                           ELSE off)

\* SELECT ... FROM snapshots s JOIN stocks st ON s.stock_id = st.id WHERE s.id = ?
SelectSnapshot(d, snapshot_id) ==
    UNION {{[s |-> s, st |-> st] : st \in {x \in d.stocks : x.id = s.stock_id}} :
              s \in {x \in d.snapshots : x.id = snapshot_id}}

\* SELECT date, adj_close FROM price_history WHERE stock_id = ? AND date >= ?
\* AND date <= date(?, '+24 months') ORDER BY date
SelectPriceSeries(d, stock_id, snapshot_date) ==
    OrderByDate({[date |-> r.date, adj_close |-> r.adj_close] :
                    r \in {x \in d.price_history :
                              /\ x.stock_id = stock_id
                              /\ x.date >= snapshot_date
                              /\ x.date <= PlusTwoYears(snapshot_date)}})

\* UPDATE snapshots SET times_played = times_played + 1,
\* correct_guesses = correct_guesses + ? WHERE id = ?
UpdatePlayStats(d, snapshot_id, is_correct) ==
    [d EXCEPT !.snapshots =
        {IF r.id = snapshot_id
         THEN [r EXCEPT !.times_played = @ + 1,
                        !.correct_guesses = @ + (IF is_correct THEN 1 ELSE 0)]
         ELSE r : r \in @}]

\* every choice is accepted
ValidChoiceAny(player_choice) == TRUE

\* player_choice in ("value", "trap")
ValidChoice(player_choice) == player_choice \in {"value", "trap"}

IsCorrect(player_choice, outcome_label) ==
    \/ player_choice = "value" /\ outcome_label = "value"
    \/ player_choice = "trap" /\ outcome_label = "trap"

\* no connection waits for the write lock of another
WriteLockedNever(c) == FALSE

\* another connection holds the write lock of the database file: the UPDATE of a
\* request or the rows of a job are not committed yet
WriteLocked(c) ==
    \/ \E o \in Clients \ {c} : rv_txn[o] # None
    \/ \E j \in Jobs : txn[j] # None

NoRow == [s |-> << >>, st |-> << >>]

NoConn == [opens |-> 0, closes |-> 0]

NoReveal == [status |-> 0, detail |-> "", outcome_label |-> NULL, is_correct |-> FALSE,
             ticker |-> NULL, price_series |-> << >>]

HTTPException(status, detail) == [NoReveal EXCEPT !.status = status, !.detail = detail]

RevealRequests == [snapshot_id : GameIds, player_choice : {"value", "trap", "neutral"}]

\* player_choice is validated, before get_db
RevealValidate(c) ==
    /\ rv_pc[c] = "validate"
    /\ IF ~ValidChoice(rv_request[c].player_choice)
       THEN /\ rv_response' = [rv_response EXCEPT ![c] = HTTPException(400, "Choice must be 'value' or 'trap'")]
            /\ rv_pc' = [rv_pc EXCEPT ![c] = "done"]
       ELSE /\ rv_pc' = [rv_pc EXCEPT ![c] = "get_db"]
            /\ UNCHANGED rv_response
    /\ UNCHANGED <<rv_request, rv_row, rv_prices, rv_txn, rv_conn, disk>>

\* db = await get_db()
RevealGetDb(c) ==
    /\ rv_pc[c] = "get_db"
    /\ rv_conn' = [rv_conn EXCEPT ![c].opens = @ + 1]
    /\ rv_pc' = [rv_pc EXCEPT ![c] = "select"]
    /\ UNCHANGED <<rv_request, rv_row, rv_prices, rv_txn, rv_response, disk>>

\* the snapshot and its stock: a row, or 404
RevealSelect(c) ==
    LET rows == SelectSnapshot(disk, rv_request[c].snapshot_id)
    IN
    /\ rv_pc[c] = "select"
    /\ IF rows = {}
       THEN /\ rv_response' = [rv_response EXCEPT ![c] = HTTPException(404, "Snapshot not found")]
            /\ rv_pc' = [rv_pc EXCEPT ![c] = "close"]
            /\ UNCHANGED rv_row
       ELSE /\ rv_row' = [rv_row EXCEPT ![c] = CHOOSE row \in rows : TRUE]
            /\ rv_pc' = [rv_pc EXCEPT ![c] = "prices"]
            /\ UNCHANGED rv_response
    /\ UNCHANGED <<rv_request, rv_prices, rv_txn, rv_conn, disk>>

\* the price series of the chart
RevealPrices(c) ==
    /\ rv_pc[c] = "prices"
    /\ rv_prices' = [rv_prices EXCEPT ![c] =
                        SelectPriceSeries(disk, rv_row[c].s.stock_id, rv_row[c].s.snapshot_date)]
    /\ rv_pc' = [rv_pc EXCEPT ![c] = "update"]
    /\ UNCHANGED <<rv_request, rv_row, rv_txn, rv_conn, rv_response, disk>>

\* the UPDATE, in a transaction of the connection; it waits while another
\* connection holds the write lock
RevealUpdate(c) ==
    LET is_correct == IsCorrect(rv_request[c].player_choice, rv_row[c].s.outcome_label)
    IN
    /\ rv_pc[c] = "update"
    /\ ~WriteLocked(c)
    /\ rv_txn' = [rv_txn EXCEPT ![c] = Some(UpdatePlayStats(disk, rv_request[c].snapshot_id, is_correct))]
    /\ rv_pc' = [rv_pc EXCEPT ![c] = "commit"]
    /\ UNCHANGED <<rv_request, rv_row, rv_prices, rv_conn, rv_response, disk>>

\* the wait for the write lock times out: sqlite3.OperationalError, database is locked
RevealLocked(c) ==
    /\ rv_pc[c] = "update"
    /\ WriteLocked(c)
    /\ rv_response' = [rv_response EXCEPT ![c] = HTTPException(500, "Internal Server Error")]
    /\ rv_pc' = [rv_pc EXCEPT ![c] = "close"]
    /\ UNCHANGED <<rv_request, rv_row, rv_prices, rv_txn, rv_conn, disk>>

\* db.commit(), then the RevealResponse
RevealCommit(c) ==
    LET row == rv_row[c]
    IN
    /\ rv_pc[c] = "commit"
    /\ disk' = rv_txn[c][1]
    /\ rv_txn' = [rv_txn EXCEPT ![c] = None]
    /\ rv_response' = [rv_response EXCEPT ![c] =
            [status        |-> 200,
             detail        |-> "",
             outcome_label |-> row.s.outcome_label,
             is_correct    |-> IsCorrect(rv_request[c].player_choice, row.s.outcome_label),
             ticker        |-> row.st.ticker,
             price_series  |-> rv_prices[c]]]
    /\ rv_pc' = [rv_pc EXCEPT ![c] = "close"]
    /\ UNCHANGED <<rv_request, rv_row, rv_prices, rv_conn>>

\* finally: await db.close(); a transaction that is not committed is rolled back
RevealClose(c) ==
    /\ rv_pc[c] = "close"
    /\ rv_txn' = [rv_txn EXCEPT ![c] = None]
    /\ rv_conn' = [rv_conn EXCEPT ![c].closes = @ + 1]
    /\ rv_pc' = [rv_pc EXCEPT ![c] = "done"]
    /\ UNCHANGED <<rv_request, rv_row, rv_prices, rv_response, disk>>

RvIdle ==
    /\ rv_pc = [c \in Clients |-> "off"]
    /\ rv_request = [c \in Clients |-> [snapshot_id |-> 0, player_choice |-> ""]]
    /\ rv_row = [c \in Clients |-> NoRow]
    /\ rv_prices = [c \in Clients |-> << >>]
    /\ rv_txn = [c \in Clients |-> None]
    /\ rv_conn = [c \in Clients |-> NoConn]
    /\ rv_response = [c \in Clients |-> NoReveal]

RvInit ==
    /\ rv_pc = [c \in Clients |-> "validate"]
    /\ rv_request \in [Clients -> RevealRequests]
    /\ rv_row = [c \in Clients |-> NoRow]
    /\ rv_prices = [c \in Clients |-> << >>]
    /\ rv_txn = [c \in Clients |-> None]
    /\ rv_conn = [c \in Clients |-> NoConn]
    /\ rv_response = [c \in Clients |-> NoReveal]

----------------------------------------------------------------------------
(* api/game.py: get_next_snapshot and get_financials_for_snapshot *)

FINANCIALS_LIMIT == 5

\* Python truthiness of an Optional[str]: None and "" are both falsy
TruthyStr(v) == v # NULL /\ v # ""

\* exclude_ids.split(","): the parameter is kept as its list of parts, "" being <<"">>
TruthyParts(parts) == parts # None /\ parts[1] # <<"">>

Numerals == <<"1", "2", "3", "4", "5", "6", "7", "8", "9">>

\* int(x): the number, or a ValueError (None)
ParseInt(x) ==
    IF \E n \in DOMAIN Numerals : Numerals[n] = x
    THEN Some(CHOOSE n \in DOMAIN Numerals : Numerals[n] = x)
    ELSE None

\* [int(x) for x in exclude_ids.split(",")] raises
ParseRaises(exclude_ids) ==
    TruthyParts(exclude_ids) /\ \E k \in DOMAIN exclude_ids[1] : ParseInt(exclude_ids[1][k]) = None

\* the ids of the NOT IN list
ExcludedIds(exclude_ids) ==
    IF TruthyParts(exclude_ids)
    THEN {ParseInt(exclude_ids[1][k])[1] : k \in DOMAIN exclude_ids[1]}
    ELSE {}

\* neutral snapshots are served as well
PlayableAny(outcome_label) == outcome_label \in {"value", "trap", "neutral"}

\* s.outcome_label IN ('value', 'trap')
Playable(outcome_label) == outcome_label \in {"value", "trap"}

\* the rows of the query of get_next_snapshot, before ORDER BY RANDOM() LIMIT 1
SelectPlayable(d, difficulty, sector, exclude_ids) ==
    UNION {{[s |-> s, st |-> st] :
               st \in {x \in d.stocks :
                          /\ x.id = s.stock_id
                          /\ x.is_active
                          /\ (TruthyStr(sector) => x.sector = sector)}} :
              s \in {x \in d.snapshots :
                        /\ Playable(x.outcome_label)
                        /\ (TruthyStr(difficulty) => x.difficulty = difficulty)
                        /\ x.id \notin ExcludedIds(exclude_ids)}}

\* every fiscal year of the stock passes, whenever it was reported
FiledByAnyDate(report_date, snapshot_date) == TRUE

\* report_date <= ?
FiledBy(report_date, snapshot_date) == report_date <= snapshot_date

RECURSIVE OrderByYearDesc(_)
\* ORDER BY fiscal_year DESC
OrderByYearDesc(rows) ==
    IF rows = {} THEN << >>
    ELSE LET first == CHOOSE r \in rows : \A o \in rows : r.fiscal_year >= o.fiscal_year
         IN  <<first>> \o OrderByYearDesc(rows \ {first})

\* the columns of the query that the model keeps
FinancialYear(row) ==
    [fiscal_year |-> row.fiscal_year, revenue |-> row.revenue, free_cash_flow |-> row.free_cash_flow]

\* get_financials_for_snapshot: the query, then reversed(rows)
get_financials_for_snapshot(d, stock_id, snapshot_date) ==
    LET rows    == {r \in d.financials : r.stock_id = stock_id /\ FiledBy(r.report_date, snapshot_date)}
        desc    == OrderByYearDesc(rows)
        limited == SubSeq(desc, 1, Min(FINANCIALS_LIMIT, Len(desc)))
    IN  [k \in 1..Len(limited) |-> FinancialYear(limited[Len(limited) + 1 - k])]

NoSnapshot == [status |-> 0, detail |-> "", snapshot_id |-> 0, fake_name |-> NULL, sector |-> NULL,
               snapshot_date |-> 0, snapshot_year |-> 0, financials |-> << >>]

NextException(status, detail) == [NoSnapshot EXCEPT !.status = status, !.detail = detail]

DifficultyFilters == {NULL, "", "easy", "medium", "hard"}

SectorFilters == {NULL, "", "Technology", "Energy"}

ExcludeInputs == {None, Some(<<"">>), Some(<<"1">>), Some(<<"4", "5">>),
                  Some(<<"1", "2", "4", "5">>), Some(<<"1", "x">>)}

NextRequests == [difficulty : DifficultyFilters, sector : SectorFilters, exclude_ids : ExcludeInputs]

\* db = await get_db()
NextGetDb ==
    /\ nx_pc = "get_db"
    /\ nx_conn' = [nx_conn EXCEPT !.opens = @ + 1]
    /\ nx_pc' = "select"
    /\ UNCHANGED <<nx_request, nx_row, nx_response>>

\* the query is built and run: a ValueError of int(), a 404, or one row at random
NextSelect ==
    LET rows == SelectPlayable(disk, nx_request.difficulty, nx_request.sector, nx_request.exclude_ids)
    IN
    /\ nx_pc = "select"
    /\ IF ParseRaises(nx_request.exclude_ids)
       THEN /\ nx_response' = NextException(500, "Internal Server Error")
            /\ nx_pc' = "close"
            /\ UNCHANGED nx_row
       ELSE IF rows = {}
       THEN /\ nx_response' = NextException(404, "No snapshots available")
            /\ nx_pc' = "close"
            /\ UNCHANGED nx_row
       ELSE /\ nx_row' \in rows
            /\ nx_pc' = "financials"
            /\ UNCHANGED nx_response
    /\ UNCHANGED <<nx_request, nx_conn>>

\* the financials of the snapshot, then the GameSnapshot
NextFinancials ==
    LET s  == nx_row.s
        st == nx_row.st
    IN
    /\ nx_pc = "financials"
    /\ nx_response' =
            [status        |-> 200,
             detail        |-> "",
             snapshot_id   |-> s.id,
             fake_name     |-> st.fake_name,
             sector        |-> IF TruthyStr(st.sector) THEN st.sector ELSE "Unknown",
             snapshot_date |-> s.snapshot_date,
             snapshot_year |-> YearOf(s.snapshot_date),
             financials    |-> get_financials_for_snapshot(disk, s.stock_id, s.snapshot_date)]
    /\ nx_pc' = "close"
    /\ UNCHANGED <<nx_request, nx_row, nx_conn>>

\* finally: await db.close()
NextClose ==
    /\ nx_pc = "close"
    /\ nx_conn' = [nx_conn EXCEPT !.closes = @ + 1]
    /\ nx_pc' = "done"
    /\ UNCHANGED <<nx_request, nx_row, nx_response>>

NxIdle ==
    /\ nx_pc = "off"
    /\ nx_request = [difficulty |-> NULL, sector |-> NULL, exclude_ids |-> None]
    /\ nx_row = NoRow
    /\ nx_conn = NoConn
    /\ nx_response = NoSnapshot

NxInit ==
    /\ nx_pc = "get_db"
    /\ nx_request \in NextRequests
    /\ nx_row = NoRow
    /\ nx_conn = NoConn
    /\ nx_response = NoSnapshot

GameIdle == RvIdle /\ NxIdle

----------------------------------------------------------------------------
(* The specifications *)

\* the ingestion jobs, one after the other
Init == JobInit /\ ExtIdle /\ FnIdle /\ ClIdle /\ CoIdle /\ GsIdle /\ GameIdle

Next ==
    \/ \E j \in Jobs : Start(j)
    \/ \E j \in Jobs : GetDb(j)
    \/ \E j \in Jobs : LoadUsedNames(j)
    \/ \E j \in Jobs : CheckExists(j)
    \/ \E j \in Jobs : Upsert(j)
    \/ \E j \in Jobs : GetStockId(j)
    \/ \E j \in Jobs : InsertPriceRows(j)
    \/ \E j \in Jobs : InsertFinancialRows(j)
    \/ \E j \in Jobs : InsertSnapshotRows(j)
    \/ \E j \in Jobs : BatchCommit(j)
    \/ \E j \in Jobs : Sleep(j)
    \/ \E j \in Jobs : FinalCommit(j)
    \/ \E j \in Jobs : Close(j)

Spec == Init /\ [][Next]_vars

\* the event loop keeps running the coroutines of the jobs: a step that can be
\* taken is taken
SpecLive == Spec /\ WF_vars(Next)

\* calls of fetch_financials
InitExtract == ExtInit /\ FnIdle /\ ClIdle /\ CoIdle /\ GsIdle /\ JobIdle /\ GameIdle

NextExtract == FetchFinancials /\ UNCHANGED <<fnVars, clVars, coVars, gsVars, gameVars, jobVars>>

SpecExtract == InitExtract /\ [][NextExtract]_vars

\* calls of generate_fake_name
InitNames == FnInit /\ ExtIdle /\ ClIdle /\ CoIdle /\ GsIdle /\ JobIdle /\ GameIdle

NextNames == GenerateFakeName /\ UNCHANGED <<extVars, clVars, coVars, gsVars, gameVars, jobVars>>

SpecNames == InitNames /\ [][NextNames]_vars

\* calls of classify_outcome and classify_difficulty
InitClassify == ClInit /\ ExtIdle /\ FnIdle /\ CoIdle /\ GsIdle /\ JobIdle /\ GameIdle

NextClassify == Classify /\ UNCHANGED <<extVars, fnVars, coVars, gsVars, gameVars, jobVars>>

SpecClassify == InitClassify /\ [][NextClassify]_vars

\* calls of compute_outcome
InitOutcome == CoInit /\ ExtIdle /\ FnIdle /\ ClIdle /\ GsIdle /\ JobIdle /\ GameIdle

NextOutcome == ComputeOutcome /\ UNCHANGED <<extVars, fnVars, clVars, gsVars, gameVars, jobVars>>

SpecOutcome == InitOutcome /\ [][NextOutcome]_vars

\* calls of generate_snapshots
InitGenerate == GsInit /\ ExtIdle /\ FnIdle /\ ClIdle /\ CoIdle /\ JobIdle /\ GameIdle

NextGenerate == GenerateSnapshots /\ UNCHANGED <<extVars, fnVars, clVars, coVars, gameVars, jobVars>>

SpecGenerate == InitGenerate /\ [][NextGenerate]_vars

\* reveal_outcome alone: two clients, each with one request, on a seeded database
InitReveal ==
    /\ RvInit /\ NxIdle /\ JobOff /\ disk \in GameStores
    /\ ExtIdle /\ FnIdle /\ ClIdle /\ CoIdle /\ GsIdle

NextReveal ==
    /\ \/ \E c \in Clients : RevealValidate(c)
       \/ \E c \in Clients : RevealGetDb(c)
       \/ \E c \in Clients : RevealSelect(c)
       \/ \E c \in Clients : RevealPrices(c)
       \/ \E c \in Clients : RevealUpdate(c)
       \/ \E c \in Clients : RevealLocked(c)
       \/ \E c \in Clients : RevealCommit(c)
       \/ \E c \in Clients : RevealClose(c)
    /\ UNCHANGED <<callVars, nxVars, jobLocals>>

SpecReveal == InitReveal /\ [][NextReveal]_vars

\* one reveal request and one ingestion request on a database that holds a ticker
InitReseed ==
    /\ seed_progress = IdleProgress
    /\ disk = StoreOne
    /\ pc = [j \in Jobs |-> IF j = 1 THEN "idle" ELSE "off"]
    /\ tickers = [j \in Jobs |-> << >>]
    /\ force_refresh = [j \in Jobs |-> FALSE]
    /\ batch_size = [j \in Jobs |-> BatchSize]
    /\ idx = [j \in Jobs |-> 0]
    /\ used_names = [j \in Jobs |-> {}]
    /\ db = [j \in Jobs |-> NoDb]
    /\ txn = [j \in Jobs |-> None]
    /\ frame = [j \in Jobs |-> NoFrame]
    /\ stdout = [j \in Jobs |-> << >>]
    /\ commits = [j \in Jobs |-> << >>]
    /\ fetches = [j \in Jobs |-> 0]
    /\ db_down = FALSE
    \* the one exception that is not an outage was raised by an earlier request
    /\ faults = 1
    /\ rv_pc = [c \in Clients |-> IF c = 1 THEN "validate" ELSE "off"]
    /\ rv_request \in {[c \in Clients |-> IF c = 1 THEN r ELSE [snapshot_id |-> 0, player_choice |-> ""]] :
                          r \in {q \in RevealRequests : q.snapshot_id \in {1, 3}}}
    /\ rv_row = [c \in Clients |-> NoRow]
    /\ rv_prices = [c \in Clients |-> << >>]
    /\ rv_txn = [c \in Clients |-> None]
    /\ rv_conn = [c \in Clients |-> NoConn]
    /\ rv_response = [c \in Clients |-> NoReveal]
    /\ NxIdle /\ ExtIdle /\ FnIdle /\ ClIdle /\ CoIdle /\ GsIdle

NextReseed ==
    \/ Next
    \/ NextReveal

SpecReseed == InitReseed /\ [][NextReseed]_vars

\* a job for one ticker has been started, and a second request may come at any time
InitOverlap ==
    /\ seed_progress = [IdleProgress EXCEPT !.status = "running", !.total = 1]
    /\ disk = EmptyDb
    /\ pc = [j \in Jobs |-> IF j = 1 THEN "get_db" ELSE "idle"]
    /\ tickers = [j \in Jobs |-> IF j = 1 THEN <<"AAA">> ELSE << >>]
    /\ force_refresh = [j \in Jobs |-> FALSE]
    /\ batch_size = [j \in Jobs |-> BatchSize]
    /\ idx = [j \in Jobs |-> 0]
    /\ used_names = [j \in Jobs |-> {}]
    /\ db = [j \in Jobs |-> NoDb]
    /\ txn = [j \in Jobs |-> None]
    /\ frame = [j \in Jobs |-> NoFrame]
    /\ stdout = [j \in Jobs |-> << >>]
    /\ commits = [j \in Jobs |-> << >>]
    /\ fetches = [j \in Jobs |-> 0]
    /\ db_down = FALSE
    \* the one exception that is not an outage was raised by an earlier request
    /\ faults = 1
    /\ ExtIdle /\ FnIdle /\ ClIdle /\ CoIdle /\ GsIdle /\ GameIdle

\* two ingestion requests whose background tasks may run at the same time
NextOverlap ==
    \/ Next
    \/ \E j \in Jobs : StartOverlapping(j)

SpecOverlap == InitOverlap /\ [][NextOverlap]_vars

\* get_next_snapshot alone: one request on a seeded database
InitBrowse ==
    /\ NxInit /\ RvIdle /\ JobOff /\ disk \in GameStores
    /\ ExtIdle /\ FnIdle /\ ClIdle /\ CoIdle /\ GsIdle

NextBrowse ==
    /\ \/ NextGetDb
       \/ NextSelect
       \/ NextFinancials
       \/ NextClose
    /\ UNCHANGED <<callVars, rvVars, jobVars>>

SpecBrowse == InitBrowse /\ [][NextBrowse]_vars

----------------------------------------------------------------------------
(* Point-in-time extraction *)

\* C1: fetch_financials never returns a financial year whose report date (the
\* period end plus 90 days) is on or after the cutoff it was called with; every
\* year it returns is a statement column that was reported before the cutoff
C1_NoLookAhead ==
    ext_pc = "returned" =>
        \A k \in DOMAIN ext_result :
            /\ Midnight(ext_result[k].report_date) < before_date
            /\ \E c \in DOMAIN income_columns :
                 /\ ext_result[k].fiscal_year = YearOf(DateOf(income_columns[c].year_end))
                 /\ ext_result[k].report_date =
                        DateOf(PlusDays(income_columns[c].year_end, FILING_DELAY_DAYS))
                 /\ PlusDays(income_columns[c].year_end, FILING_DELAY_DAYS) < before_date

\* a call that returned earlier years and left out a year with revenue that was
\* reported at the very instant of the cutoff
C1_Witness ==
    /\ ext_pc = "returned"
    /\ ext_result # << >>
    /\ \E c \in DOMAIN income_columns :
         /\ Truthy(income_columns[c].revenue)
         /\ PlusDays(income_columns[c].year_end, FILING_DELAY_DAYS) = before_date

----------------------------------------------------------------------------
(* The ingestion job *)

\* the job the progress record belongs to: the last one that was started
CurrentJob == CHOOSE j \in Jobs : (j = 1 \/ pc[j] # "idle") /\ \A k \in Jobs : k > j => pc[k] = "idle"

\* the job that starts on the empty store is the only one started so far
FirstJobOnly == \A k \in Jobs \ {1} : pc[k] = "idle"

TickersOf(s) == [k \in DOMAIN s |-> s[k].ticker]

Failures(log) == SelectSeq(log, LAMBDA e : ~e.success)

PerTicker(errors) == SelectSeq(errors, LAMBDA e : e.ticker # "GLOBAL")

Global(errors) == SelectSeq(errors, LAMBDA e : e.ticker = "GLOBAL")

\* C2: a ticker of the job that is flagged failed (and never succeeds in the job)
\* leaves no committed row: the job started on the empty store, so every row of
\* the ticker was written during the job
C2_AllOrNothing ==
    FirstJobOnly =>
        \A e \in Range(stdout[1]) :
            (~e.success /\ \A o \in Range(stdout[1]) : o.ticker = e.ticker => ~o.success)
                => StockOf(disk, e.ticker) = {}

\* C3: every ticker of the list is processed once, in list order; a ticker that
\* fails or raises is counted as failed once and leaves exactly one error record
\* under its own name, and the tickers after it are still processed; without a
\* job-level exception the job ends completed with processed = total
C3_FailuresCounted ==
    LET j == CurrentJob
        p == seed_progress
    IN  pc[j] # "idle" =>
            /\ p.total = Len(tickers[j])
            /\ p.processed = Len(stdout[j])
            /\ TickersOf(stdout[j]) = SubSeq(tickers[j], 1, Len(stdout[j]))
            /\ p.failed = Len(Failures(stdout[j]))
            /\ p.successful + p.failed = p.processed
            /\ TickersOf(PerTicker(p.errors)) = TickersOf(Failures(stdout[j]))
            /\ (pc[j] = "done" /\ db[j].opens > 0 /\ p.status # "error")
                    => (p.status = "completed" /\ p.processed = p.total)
            /\ p.status = "completed" => p.processed = p.total

\* a completed job of two tickers whose first ticker raised and whose second
\* ticker succeeded
C3_Witness ==
    LET j == CurrentJob
        p == seed_progress
    IN  /\ pc[j] = "done"
        /\ p.status = "completed"
        /\ Len(stdout[j]) = 2
        /\ ~stdout[j][1].success
        /\ stdout[j][2].success
        /\ p.errors # << >>
        /\ p.errors[1].error \in {StoreError, UpstreamError}

\* C4: seed_single_ticker on a ticker whose row exists, force_refresh being off,
\* fetches nothing upstream and writes nothing (no row, no snapshot), and unless
\* the existence check itself raises it is counted as a success
C4_SkipExisting ==
    [][\A j \in Jobs :
        (/\ pc[j] = "check_exists"
         /\ pc'[j] # "check_exists"
         /\ StockOf(View(j), tickers[j][idx[j]]) # {}
         /\ ~force_refresh[j])
        => /\ fetches'[j] = fetches[j]
           /\ disk' = disk
           /\ txn' = txn
           /\ (~db_down' /\ faults' = faults)
                => /\ seed_progress'.successful = seed_progress.successful + 1
                   /\ seed_progress'.failed = seed_progress.failed
                   /\ seed_progress'.errors = seed_progress.errors
                   /\ stdout'[j] = Append(stdout[j], [ticker |-> tickers[j][idx[j]],
                                                      success |-> TRUE])]_vars

\* a job without force_refresh whose first ticker was committed with its
\* snapshots by an earlier job: it succeeded without any upstream call
C4_Witness ==
    \E j \in Jobs :
        /\ pc[j] # "idle"
        /\ ~force_refresh[j]
        /\ stdout[j] # << >>
        /\ stdout[j][1].success
        /\ fetches[j] = 0
        /\ StockOf(disk, stdout[j][1].ticker) # {}
        /\ \E r \in StockOf(disk, stdout[j][1].ticker) :
                \E sn \in disk.snapshots : sn.stock_id = r.id

\* C5: when the persistence layer goes away during a job (and nothing else
\* raises), the job ends with status error and one GLOBAL record, and the outage
\* shows in no per-ticker record: no ticker is processed from the failure on
C5_OutageAborts ==
    LET j == CurrentJob
        p == seed_progress
    IN  (db_down /\ faults = 0 /\ pc[j] = "done" /\ db[j].opens > 0)
            => /\ p.status = "error"
               /\ Len(Global(p.errors)) = 1
               /\ \A e \in Range(p.errors) : e.error = StoreError => e.ticker = "GLOBAL"

\* a job is called
IsStart == \E j \in Jobs : pc[j] = "idle" /\ pc'[j] # "idle"

\* the final commit of a job succeeds in this step
FinalCommitDone ==
    \E j \in Jobs :
        /\ pc[j] = "final_commit"
        /\ pc'[j] = "close"
        /\ disk' = View(j)
        /\ txn'[j] = None

\* C6: the status changes only from idle to running, from running to completed
\* and from running to error, or to running when a new job starts; it becomes
\* completed only in the step in which the final commit succeeds; completed and
\* error stay until a new job starts
C6_StatusTransitions ==
    [][LET a == seed_progress.status
           b == seed_progress'.status
       IN  /\ a # b => \/ <<a, b>> \in {<<"idle", "running">>, <<"running", "completed">>,
                                          <<"running", "error">>}
                        \/ (IsStart /\ b = "running")
           /\ (a = "idle" /\ b = "running") => IsStart
           /\ (a \in {"completed", "error"} /\ ~IsStart) => b = a
           /\ (b = "completed" /\ a # "completed") => (a = "running" /\ FinalCommitDone)]_vars

\* a second job has processed tickers and completed after the first one had run
\* to its end
C6_Witness ==
    /\ pc[1] = "done"
    /\ db[1].closes = 1
    /\ pc[2] = "done"
    /\ seed_progress.status = "completed"
    /\ seed_progress.processed > 0

\* the tickers after which a batch commit falls: N, 2N, ... up to n
BatchCommits(n, N) == [k \in 1..(n \div N) |-> k * N]

\* C7: a job of n tickers and batch size N that ends without a job-level
\* exception has called commit floor(n / N) + 1 times: after every N-th ticker
\* and once more after the last; the batch commits of any job fall after every
\* N-th ticker
C7_CommitCount ==
    LET j == CurrentJob
        n == Len(tickers[j])
        N == batch_size[j]
    IN  /\ \A k \in DOMAIN commits[j] : k <= n \div N => commits[j][k] = k * N
        /\ (pc[j] = "done" /\ seed_progress.status = "completed")
                => /\ Len(commits[j]) = n \div N + 1
                   /\ commits[j] = BatchCommits(n, N) \o <<n>>

\* a completed job with more tickers than the batch size
C7_Witness ==
    LET j == CurrentJob
    IN  /\ pc[j] = "done"
        /\ seed_progress.status = "completed"
        /\ Len(tickers[j]) > batch_size[j]
        /\ Len(commits[j]) > 2

\* the positions of a job at which it holds the connection
StorePcs ==
    {"used_names", "check_exists", "upsert", "get_id", "insert_prices", "insert_financials",
     "insert_snapshots", "commit", "sleep", "final_commit", "close"}

\* C8: a job calls get_db at most once and works only on the open connection;
\* a job that got the connection has closed it exactly once when it has ended,
\* on the completed and on the error path, and does nothing with it afterwards
C8_ConnectionClosedOnce ==
    \A j \in Jobs :
        /\ db[j].opens <= 1
        /\ db[j].closes <= db[j].opens
        /\ pc[j] \in StorePcs => (db[j].state = "open" /\ db[j].opens = 1 /\ db[j].closes = 0)
        /\ (pc[j] = "done" /\ db[j].opens = 1) => (db[j].state = "closed" /\ db[j].closes = 1)
        /\ db[j].state = "closed" => pc[j] = "done"
        /\ txn[j] # None => db[j].state = "open"

\* a job that ended with status error and has closed its connection
C8_Witness ==
    LET j == CurrentJob
    IN  /\ pc[j] = "done"
        /\ seed_progress.status = "error"
        /\ db[j].state = "closed"
        /\ db[j].closes = 1

\* C9: no two instrument rows that a job inserts carry the same display name
\* (the job started on the empty store, so every row is one it inserted)
C9_UniqueNames ==
    FirstJobOnly =>
        \A d \in {View(1), disk} :
            \A r1 \in d.stocks, r2 \in d.stocks : r1.fake_name = r2.fake_name => r1 = r2

\* C26: jobs running one at a time, whenever the progress record can be read (at
\* every await of the job and after its end) processed = successful + failed and
\* 0 <= processed <= total; when the status is completed, processed = total and
\* current_ticker is null
C26_ProgressCounters ==
    LET p == seed_progress
    IN  /\ p.processed = p.successful + p.failed
        /\ 0 <= p.processed
        /\ p.processed <= p.total
        /\ p.status = "completed" => (p.processed = p.total /\ p.current_ticker = NULL)

\* a completed job that counted a success and a failure
C26_Witness ==
    /\ seed_progress.status = "completed"
    /\ seed_progress.successful > 0
    /\ seed_progress.failed > 0
    /\ seed_progress.processed = seed_progress.total

\* C23: the used-name set of a job is the set of display names stored when the
\* job read them, and afterwards it only ever gains the name chosen for a ticker
\* in the step in which that ticker's processing succeeds in full; a ticker that
\* fails or that is skipped as already existing adds nothing
C23_UsedNames ==
    [][\A j \in Jobs :
        used_names'[j] # used_names[j] =>
            \/ IsStart
            \/ /\ pc[j] = "used_names"
               /\ used_names'[j] = {r.fake_name : r \in View(j).stocks}
            \/ /\ pc[j] = "insert_snapshots"
               /\ used_names'[j] = used_names[j] \cup {frame[j].fake_name}
               /\ seed_progress'.successful = seed_progress.successful + 1]_vars

\* C27: every job that was started leaves the status running for completed or
\* error, whatever the persistence layer does, a get_db that raises included
C27_JobTerminates ==
    (seed_progress.status = "running") ~> (seed_progress.status \in {"completed", "error"})

\* C28: once the status of a job is completed or error, the stocks row of every
\* ticker the job has reported successful is committed
C28_SuccessfulCommitted ==
    LET j == CurrentJob
    IN  seed_progress.status \in {"completed", "error"} =>
            \A e \in Range(stdout[j]) : e.success => StockOf(disk, e.ticker) # {}

\* C29: a ticker is reported as already existing only when the store holds a price
\* row of it: a ticker that failed before is fetched again
C29_SkippedHasPrices ==
    [][\A j \in Jobs :
        (/\ pc[j] = "check_exists"
         /\ pc'[j] # "check_exists"
         /\ StockOf(View(j), tickers[j][idx[j]]) # {}
         /\ ~force_refresh[j]
         /\ seed_progress'.successful = seed_progress.successful + 1)
        => \E r \in StockOf(View(j), tickers[j][idx[j]]) :
              \E q \in View(j).price_history : q.stock_id = r.id]_vars

\* the rows of a table agree on no key
OneRowPer(rows, Key(_)) == Cardinality({Key(r) : r \in rows}) = Cardinality(rows)

TickerKey(r) == r.ticker

PriceKey(r) == <<r.stock_id, r.date>>

FinancialKey(r) == <<r.stock_id, r.fiscal_year>>

SnapshotKey(r) == <<r.stock_id, r.snapshot_date>>

UniqueRows(d) ==
    /\ OneRowPer(d.stocks, TickerKey)
    /\ OneRowPer(d.price_history, PriceKey)
    /\ OneRowPer(d.financials, FinancialKey)
    /\ OneRowPer(d.snapshots, SnapshotKey)

RowCounts(d) ==
    [stocks |-> Cardinality(d.stocks), price_history |-> Cardinality(d.price_history),
     financials |-> Cardinality(d.financials), snapshots |-> Cardinality(d.snapshots)]

\* the snapshots an ingestion writes for a ticker
SampleSnapshots ==
    Len(generate_snapshots(1, SamplePrices, MIN_HISTORY_YEARS, FORWARD_MONTHS, MIN_SNAPSHOT_YEAR))

\* every row an ingestion of the ticker writes is in d
FullyIngested(d, ticker) ==
    \E r \in StockOf(d, ticker) :
        /\ Cardinality({q \in d.price_history : q.stock_id = r.id}) = Len(SamplePrices)
        /\ Cardinality({q \in d.financials : q.stock_id = r.id}) = Len(JobFinancials)
        /\ Cardinality({q \in d.snapshots : q.stock_id = r.id}) = SampleSnapshots

\* the statements of seed_single_ticker that write rows
WritingPcs == {"upsert", "get_id", "insert_prices", "insert_financials", "insert_snapshots"}

\* C24: the committed rows and the rows every job reads hold at most one stocks
\* row per ticker, one price row per (stock, date), one financials row per
\* (stock, fiscal year) and one snapshot row per (stock, snapshot date); and a
\* force_refresh job that ingests a ticker whose rows are all there already
\* leaves the number of rows of every table as it was
C24_OneRowPerKey ==
    /\ [](UniqueRows(disk) /\ \A j \in Jobs : txn[j] # None => UniqueRows(View(j)))
    /\ [][\A j \in Jobs :
            (/\ pc[j] \in WritingPcs
             /\ force_refresh[j]
             /\ FullyIngested(View(j), tickers[j][idx[j]]))
            => RowCounts(View(j))' = RowCounts(View(j))]_vars

\* a force_refresh job has written the prices and the financials of a ticker
\* that was fully ingested and committed before, and is about to write its
\* snapshots
C24_Witness ==
    \E j \in Jobs :
        /\ pc[j] = "insert_snapshots"
        /\ force_refresh[j]
        /\ txn[j] # None
        /\ FullyIngested(disk, tickers[j][idx[j]])
        /\ disk.snapshots # {}

\* the step is the first statements of job j
IsBegin(j) == pc[j] = "idle" /\ pc'[j] = "get_db"

\* the step ends a loop iteration of job j
IsTickerDone(j) == Len(stdout'[j]) = Len(stdout[j]) + 1

\* the step is the final commit of job j, and it does not raise
IsCompletion(j) ==
    pc[j] = "final_commit" /\ pc'[j] = "close" /\ ~db_down' /\ faults' = faults

\* C21: a job that starts, also while another job runs, leaves the one progress
\* record with its own ticker count as total, the counters at zero, no current
\* ticker and no errors, so that nothing of the other job's progress is left in
\* it; and each job, the earlier one included, goes on to count its tickers and
\* to set its final status in that record
C21_SharedProgress ==
    [][\A j \in Jobs :
          /\ IsBegin(j) =>
                seed_progress' = [status |-> "running", total |-> Len(tickers'[j]),
                                  processed |-> 0, successful |-> 0, failed |-> 0,
                                  current_ticker |-> NULL, errors |-> << >>]
          /\ IsTickerDone(j) =>
                /\ seed_progress'.processed = seed_progress.processed + 1
                /\ seed_progress'.successful + seed_progress'.failed
                     = seed_progress.successful + seed_progress.failed + 1
                /\ seed_progress'.total = seed_progress.total
          /\ IsCompletion(j) =>
                /\ seed_progress'.status = "completed"
                /\ seed_progress'.current_ticker = NULL
                /\ seed_progress'.total = seed_progress.total]_vars

\* the second job was started for two tickers before the first job had counted
\* its ticker; the first job has ended, and the record of the second job, which
\* has not finished a ticker yet, shows one processed ticker and "completed"
C21_Witness ==
    /\ pc[1] = "done"
    /\ pc[2] \in WritingPcs
    /\ stdout[2] = << >>
    /\ Len(stdout[1]) = 1
    /\ Len(tickers[2]) = 2
    /\ seed_progress.total = 2
    /\ seed_progress.processed = 1
    /\ seed_progress.status = "completed"

\* a snapshot row without its play counters
Frozen(s) == [s EXCEPT !.times_played = 0, !.correct_guesses = 0]

SameCounters(s, t) == s.times_played = t.times_played /\ s.correct_guesses = t.correct_guesses

\* the step is the commit of a reveal request
IsRevealCommit == \E c \in Clients : rv_pc[c] = "commit" /\ rv_pc'[c] = "close"

\* C22: a committed snapshot row stays, and keeps its prices, returns,
\* outcome_label and difficulty in every step of a reveal request or of a job,
\* a force_refresh job that is served other prices included; its times_played
\* and correct_guesses change in the commit of a reveal request only
C22_SnapshotFrozen ==
    [][\A s \in disk.snapshots :
          \E t \in disk'.snapshots :
              /\ t.id = s.id
              /\ Frozen(t) = Frozen(s)
              /\ (~SameCounters(s, t) => IsRevealCommit)]_vars

\* a force_refresh job has ingested the stored ticker again from prices that
\* give its second snapshot another price and label, a reveal request has been
\* counted, and the snapshot is as it was stored
C22_Witness ==
    /\ seed_progress.status = "completed"
    /\ force_refresh[1]
    /\ \E e \in Range(stdout[1]) : e.success /\ e.ticker = "AAA"
    /\ \E q \in disk.price_history : q.stock_id = 1 /\ q.date = DateOf(JobNow) - 3
    /\ \E s \in disk.snapshots : s.times_played > 0
    /\ \E s \in disk.snapshots :
          /\ s.stock_id = 1 /\ s.snapshot_date = Quarter(1)
          /\ s.outcome_label = "trap" /\ s.price_at_snapshot = 100
    /\ \E g \in Range(generate_snapshots(1, SamplePrices, MIN_HISTORY_YEARS, FORWARD_MONTHS,
                                           MIN_SNAPSHOT_YEAR)) :
          /\ g.snapshot_date = Quarter(1)
          /\ g.outcome_label = "value" /\ g.price_at_snapshot = 120

\* the column passes the cutoff and has a revenue figure that is not zero
Qualifies(col, cutoff) ==
    /\ PlusDays(col.year_end, FILING_DELAY_DAYS) < cutoff
    /\ col.revenue # None
    /\ col.revenue[1] # 0

\* C16: fetch_financials returns at most 5 years, in strictly ascending order of
\* fiscal year: the 5 most recent of the periods that pass the cutoff and have a
\* usable revenue, or all of them when they are fewer
C16_FiveMostRecent ==
    ext_pc = "returned" =>
        LET q     == {c \in DOMAIN income_columns : Qualifies(income_columns[c], before_date)}
            years == {YearOf(DateOf(income_columns[c].year_end)) : c \in q}
            got   == {ext_result[k].fiscal_year : k \in DOMAIN ext_result}
        IN  /\ Len(ext_result) <= 5
            /\ Len(ext_result) = Min(5, Cardinality(q))
            /\ \A k \in 1..(Len(ext_result) - 1) :
                    ext_result[k].fiscal_year < ext_result[k + 1].fiscal_year
            /\ got \subseteq years
            /\ \A y \in years \ got : \A g \in got : y < g

\* the statement column a returned record was made from
ColumnOf(rec) ==
    CHOOSE c \in DOMAIN income_columns :
        rec.report_date = DateOf(PlusDays(income_columns[c].year_end, FILING_DELAY_DAYS))

\* C25: in every record fetch_financials returns, free_cash_flow is the operating
\* cash flow minus the absolute capital expenditure (in millions) whenever the
\* statement has both figures, whatever their values, and it is null exactly when
\* one of the two is absent
C25_FreeCashFlow ==
    ext_pc = "returned" =>
        \A k \in DOMAIN ext_result :
            LET col   == income_columns[ColumnOf(ext_result[k])]
                op_cf == col.op_cf
                capex == col.capex
                fcf   == ext_result[k].free_cash_flow
            IN  /\ (op_cf # None /\ capex # None) =>
                        fcf = Some((op_cf[1] - (IF capex[1] < 0 THEN 0 - capex[1] ELSE capex[1]))
                                        \div MILLION)
                /\ (fcf = None) <=> (op_cf = None \/ capex = None)

----------------------------------------------------------------------------
(* Outcomes and snapshots *)

\* C11: classify_outcome(r) is value for every r >= 0.30, trap for every
\* r <= -0.20 and neutral for every r strictly between; 0.30 is value and -0.20
\* is trap
C11_OutcomeThresholds ==
    cl_pc = "returned" =>
        LET n == cl_return.num
            d == cl_return.den
        IN  /\ n * 100 >= 30 * d => cl_outcome = "value"
            /\ n * 100 <= (0 - 20) * d => cl_outcome = "trap"
            /\ (n * 100 < 30 * d /\ n * 100 > (0 - 20) * d) => cl_outcome = "neutral"

\* a return of exactly -0.20 was classified, as trap
C11_Witness ==
    /\ cl_pc = "returned"
    /\ cl_return.num * 100 = (0 - 20) * cl_return.den
    /\ cl_outcome = "trap"

\* C12: classify_difficulty(r) is easy for |r| >= 0.50, hard for |r| <= 0.10 and
\* medium otherwise; 0.50 is easy and 0.10 is hard; r and -r get the same label
C12_DifficultyThresholds ==
    cl_pc = "returned" =>
        LET a == Abs(cl_return.num)
            d == cl_return.den
        IN  /\ a * 100 >= 50 * d => cl_difficulty = "easy"
            /\ a * 100 <= 10 * d => cl_difficulty = "hard"
            /\ (a * 100 < 50 * d /\ a * 100 > 10 * d) => cl_difficulty = "medium"
            /\ cl_difficulty = classify_difficulty([num |-> 0 - cl_return.num, den |-> d])

\* a return of exactly -0.50 was classified, as easy
C12_Witness ==
    /\ cl_pc = "returned"
    /\ cl_return.num < 0
    /\ Abs(cl_return.num) * 100 = 50 * cl_return.den
    /\ cl_difficulty = "easy"

\* the series has a price dated on or after day
HasPriceFrom(prices, day) == \E k \in DOMAIN prices : prices[k].date >= day

\* the first price of the series dated on or after day
FirstPriceFrom(prices, day) ==
    LET k == CHOOSE i \in DOMAIN prices :
                /\ prices[i].date >= day
                /\ \A h \in DOMAIN prices : prices[h].date >= day => i <= h
    IN  prices[k].adj_close

\* C13: compute_outcome returns None if and only if the series has no price
\* dated on or after the snapshot date or none dated on or after the snapshot
\* date plus forward_months * 30 days, whatever the prices are
C13_NoneIffNoPrice ==
    co_pc = "returned" =>
        (co_result = None <=>
            \/ ~HasPriceFrom(co_prices, co_date)
            \/ ~HasPriceFrom(co_prices, co_date + co_months * DAYS_PER_MONTH))

C30_HorizonsPresent ==
    (co_pc = "returned" /\ co_result # None /\ co_months * DAYS_PER_MONTH >= 365) =>
        /\ co_result[1].price_at_6mo # None
        /\ co_result[1].price_at_12mo # None

\* an outcome at the default horizon whose only price after the snapshot date is
\* the forward price
C30_Witness ==
    /\ co_pc = "returned"
    /\ co_result # None
    /\ co_months = FORWARD_MONTHS
    /\ \A k \in DOMAIN co_prices :
          co_prices[k].date > co_date => co_prices[k].date >= co_date + co_months * DAYS_PER_MONTH

\* C15: with lower = max(first + min_history_years * 365, 1 January of
\* min_snapshot_year) and upper = last - forward_months * 30, generate_snapshots
\* returns nothing when lower >= upper, and otherwise snapshots dated within
\* [lower, upper], each 90 days after the one before it
C15_QuarterlyWindow ==
    (gs_pc = "returned" /\ gs_prices # << >>) =>
        LET days  == {gs_prices[k].date : k \in DOMAIN gs_prices}
            first == CHOOSE x \in days : \A y \in days : x <= y
            last  == CHOOSE x \in days : \A y \in days : x >= y
            lower == Max(first + gs_config.min_history_years * 365,
                         JanFirst(gs_config.min_snapshot_year))
            upper == last - gs_config.forward_months * 30
        IN  /\ lower >= upper => gs_result = << >>
            /\ \A k \in DOMAIN gs_result :
                    /\ gs_result[k].snapshot_date >= lower
                    /\ gs_result[k].snapshot_date <= upper
            /\ \A k \in 1..(Len(gs_result) - 1) :
                    gs_result[k + 1].snapshot_date - gs_result[k].snapshot_date = 90

----------------------------------------------------------------------------
(* The game *)

\* the play counters of every snapshot
Counters(d) == {<<s.id, s.times_played, s.correct_guesses>> : s \in d.snapshots}

BadChoice(c) == rv_request[c].player_choice \notin {"value", "trap"}

UnknownId(c) == \A s \in disk.snapshots : s.id # rv_request[c].snapshot_id

\* C17: a reveal whose choice is neither value nor trap fails with 400 and never
\* opens the database; a reveal of an unknown snapshot id fails with 404; no step of
\* either changes the play counters of any snapshot
C17_RejectedReveals ==
    /\ [](\A c \in Clients :
            /\ BadChoice(c) =>
                  (/\ rv_conn[c].opens = 0
                   /\ rv_response[c].status \in {0, 400}
                   /\ (rv_pc[c] = "done" => rv_response[c].status = 400))
            /\ (~BadChoice(c) /\ UnknownId(c)) =>
                  (/\ rv_response[c].status \in {0, 404}
                   /\ (rv_pc[c] = "done" => rv_response[c].status = 404)))
    /\ [][\A c \in Clients :
            (rv_pc'[c] # rv_pc[c] /\ (BadChoice(c) \/ UnknownId(c)))
                => Counters(disk') = Counters(disk)]_vars

C17_Witness ==
    \E c \in Clients, o \in Clients :
        /\ disk.snapshots # {}
        /\ rv_pc[c] = "done" /\ BadChoice(c) /\ rv_response[c].status = 400
        /\ rv_pc[o] = "done" /\ ~BadChoice(o) /\ UnknownId(o) /\ rv_response[o].status = 404

\* the clients whose reveal of snapshot s has succeeded
Served(s) == {c \in Clients : rv_response[c].status = 200 /\ rv_request[c].snapshot_id = s.id}

\* C18: every successful reveal of a snapshot adds exactly 1 to its times_played, and
\* 1 to its correct_guesses when the choice equals its outcome label and 0 otherwise,
\* and reports is_correct accordingly; it changes no other snapshot; however the
\* reveals of two clients interleave, the counters hold one increment per success
C18_PlayStats ==
    /\ \A s \in disk.snapshots :
          /\ s.times_played = Cardinality(Served(s))
          /\ s.correct_guesses =
                Cardinality({c \in Served(s) : rv_request[c].player_choice = s.outcome_label})
    /\ \A c \in Clients :
          rv_response[c].status = 200 =>
             \E s \in disk.snapshots :
                /\ s.id = rv_request[c].snapshot_id
                /\ rv_response[c].outcome_label = s.outcome_label
                /\ rv_response[c].is_correct = (rv_request[c].player_choice = s.outcome_label)

C18_Witness ==
    \E s \in disk.snapshots :
        /\ s.times_played = 2
        /\ s.correct_guesses = 1
        /\ \A c \in Clients : rv_pc[c] = "done" /\ rv_response[c].status = 200

\* a filter is given when it is neither absent nor empty
Given(v) == v # NULL /\ v # ""

\* the snapshot passes every condition of the request
Qualified(s) ==
    /\ s.outcome_label \in {"value", "trap"}
    /\ \E st \in disk.stocks :
          /\ st.id = s.stock_id
          /\ st.is_active
          /\ (Given(nx_request.sector) => st.sector = nx_request.sector)
    /\ (Given(nx_request.difficulty) => s.difficulty = nx_request.difficulty)
    /\ s.id \notin ExcludedIds(nx_request.exclude_ids)

\* C19: the snapshot get_next_snapshot returns is labeled value or trap, belongs to
\* an active stock, matches the difficulty and the sector filter when given, and is
\* not among the excluded ids; the request ends in 404 exactly when no stored
\* snapshot is such a one (for a list of excluded ids that int() reads)
C19_OnlyPlayable ==
    /\ nx_response.status = 200 =>
          \E s \in disk.snapshots : s.id = nx_response.snapshot_id /\ Qualified(s)
    /\ nx_response.status = 404 => \A s \in disk.snapshots : ~Qualified(s)
    /\ (nx_pc = "done" /\ ~ParseRaises(nx_request.exclude_ids)) =>
          (/\ nx_response.status \in {200, 404}
           /\ ((\A s \in disk.snapshots : ~Qualified(s)) => nx_response.status = 404))

C19_Witness ==
    /\ nx_pc = "done"
    /\ nx_response.status = 200
    /\ Given(nx_request.difficulty)
    /\ Given(nx_request.sector)
    /\ ExcludedIds(nx_request.exclude_ids) # {}
    /\ \E s \in disk.snapshots : ~Qualified(s)

\* the financials rows of the stock of the snapshot returned that were reported on
\* or before its date
ReportedRows ==
    {r \in disk.financials :
        \E s \in disk.snapshots :
            /\ s.id = nx_response.snapshot_id
            /\ r.stock_id = s.stock_id
            /\ r.report_date <= s.snapshot_date}

\* C20: the financial years returned with a snapshot were all reported on or before
\* the snapshot date, are at most 5, are the most recent such fiscal years of the
\* stock, and are in ascending order of fiscal year
C20_FinancialsBeforeSnapshot ==
    nx_response.status = 200 =>
        LET f   == nx_response.financials
            got == {f[k].fiscal_year : k \in DOMAIN f}
        IN  /\ \A k \in DOMAIN f :
                  \E r \in ReportedRows : r.fiscal_year = f[k].fiscal_year /\ r.revenue = f[k].revenue
            /\ Len(f) <= 5
            /\ Len(f) = Min(5, Cardinality(ReportedRows))
            /\ \A r \in ReportedRows : r.fiscal_year \notin got => \A g \in got : r.fiscal_year < g
            /\ \A k \in 1..(Len(f) - 1) : f[k].fiscal_year < f[k + 1].fiscal_year

C20_Witness ==
    /\ nx_response.status = 200
    /\ Len(nx_response.financials) = 5
    /\ Cardinality(ReportedRows) > 5
    /\ \E s \in disk.snapshots :
          /\ s.id = nx_response.snapshot_id
          /\ \E r \in ReportedRows : r.report_date = s.snapshot_date
          /\ \E r \in disk.financials : r.stock_id = s.stock_id /\ r.report_date > s.snapshot_date

----------------------------------------------------------------------------
(* Display names *)

\* C10: generate_fake_name never returns a member of the used_names it is given,
\* the fallback after MAX_ATTEMPTS collisions included
C10_NeverUsed == fn_pc = "returned" => fn_result \notin fn_used

====
